---- MODULE Spec2Model ----
(***************************************************************************)
(* rpatoolkit: header-row location (df/read_excel.py find_header_row, the  *)
(* polars-based variant "df"; excel/find_header_row.py find_header_row,    *)
(* the calamine-based variant "xl") and column reconciliation              *)
(* (df/utils.py normalize_columns).                                        *)
(*                                                                         *)
(* Text is a sequence of one-character strings, so that str.strip() and    *)
(* str.lower() are computed, not assumed.  A cell is a tagged record:      *)
(* None, a str, an int or a bool.                                          *)
(***************************************************************************)
EXTENDS Integers, Sequences, FiniteSets, TLC

\* ------------------------------------------------------------------ bounds
\* a decoded sheet has at most MaxCells cells; max_rows is at most MaxScan
MaxCells == 6
MaxScan == 3
\* a counted row has at most MaxRowLen cells
MaxRowLen == 3
\* the largest sheet index a caller passes
MaxSheetId == 2
\* the names a mapping lists, over all its entries
MaxAliases == 3
\* the columns of a frame
MaxColumns == 2
\* the characters of a text handed to strip_punctuation
MaxTextLen == 5
\* the rows of a sheet read with visible_rows_only
MaxSheetRows == 3

\* find_header_row: max_rows: int = 200
DefaultMaxRows == 200

\* ------------------------------------------------------------- cell values
NoneCell == [t |-> "none"]
StrCell(s) == [t |-> "str", s |-> s]
IntCell(n) == [t |-> "int", n |-> n]
BoolCell(b) == [t |-> "bool", b |-> b]

\* ------------------------------------------------------ python primitives
\* the characters str.strip() removes and \s matches that a string of
\* this module can hold: blank, tab, line feed, carriage return, form
\* feed, then U+000B, U+001C, U+001D, U+001E, U+001F, U+0085, U+00A0 and
\* U+1680 (the whitespace of U+2000 and above cannot be written here)
Whitespace ==
  {" ", "\t", "\n", "\r", "\f",
   "", "", "", "", "", "", " ", " "}

\* str.isspace() on one character
IsSpace(c) == c \in Whitespace

\* the letters str.lower() changes, among the characters a string of this
\* module can hold
UpperLetters ==
  <<"A", "B", "C", "D", "E", "F", "G", "H", "I", "J", "K", "L", "M", "N", "O", "P",
    "Q", "R", "S", "T", "U", "V", "W", "X", "Y", "Z", "À", "Á", "Â", "Ã", "Ä", "Å",
    "Æ", "Ç", "È", "É", "Ê", "Ë", "Ì", "Í", "Î", "Ï", "Ð", "Ñ", "Ò", "Ó", "Ô", "Õ",
    "Ö", "Ø", "Ù", "Ú", "Û", "Ü", "Ý", "Þ", "Ɓ", "Ƃ", "Ƅ", "Ɔ", "Ƈ", "Ɖ", "Ɗ", "Ƌ",
    "Ǝ", "Ə", "Ɛ", "Ƒ", "Ɠ", "Ɣ", "Ɩ", "Ɨ", "Ƙ", "Ɯ", "Ɲ", "Ɵ", "Ơ", "Ƣ", "Ƥ", "Ʀ",
    "Ƨ", "Ʃ", "Ƭ", "Ʈ", "Ư", "Ʊ", "Ʋ", "Ƴ", "Ƶ", "Ʒ", "Ƹ", "Ƽ", "Ǆ", "ǅ", "Ǉ", "ǈ",
    "Ǌ", "ǋ", "Ǎ", "Ǐ", "Ǒ", "Ǔ", "Ǖ", "Ǘ", "Ǚ", "Ǜ", "Ǟ", "Ǡ", "Ǣ", "Ǥ", "Ǧ", "Ǩ",
    "Ǫ", "Ǭ", "Ǯ", "Ǳ", "ǲ", "Ǵ", "Ƕ", "Ƿ", "Ǹ", "Ǻ", "Ǽ", "Ǿ", "Ά", "Έ", "Ή", "Ί",
    "Ό", "Ύ", "Ώ", "Α", "Β", "Γ", "Δ", "Ε", "Ζ", "Η", "Θ", "Ι", "Κ", "Λ", "Μ", "Ν",
    "Ξ", "Ο", "Π", "Ρ", "Σ", "Τ", "Υ", "Φ", "Χ", "Ψ", "Ω", "Ϊ", "Ϋ", "Ϗ", "Ϙ", "Ϛ",
    "Ϝ", "Ϟ", "Ϡ", "Ϣ", "Ϥ", "Ϧ", "Ϩ", "Ϫ", "Ϭ", "Ϯ", "ϴ", "Ϸ", "Ϲ", "Ϻ", "Ͻ", "Ͼ",
    "Ͽ", "Ҁ", "Ҋ", "Ҍ", "Ҏ", "Ґ", "Ғ", "Ҕ", "Җ", "Ҙ", "Қ", "Ҝ", "Ҟ", "Ҡ", "Ң", "Ҥ",
    "Ҧ", "Ҩ", "Ҫ", "Ҭ", "Ү", "Ұ", "Ҳ", "Ҵ", "Ҷ", "Ҹ", "Һ", "Ҽ", "Ҿ", "Ӏ", "Ӂ", "Ӄ",
    "Ӆ", "Ӈ", "Ӊ", "Ӌ", "Ӎ", "Ӑ", "Ӓ", "Ӕ", "Ӗ", "Ә", "Ӛ", "Ӝ", "Ӟ", "Ӡ", "Ӣ", "Ӥ",
    "Ӧ", "Ө", "Ӫ", "Ӭ", "Ӯ", "Ӱ", "Ӳ", "Ӵ", "Ӷ", "Ӹ", "Ӻ", "Ӽ", "Ӿ", "Ⴀ", "Ⴁ", "Ⴂ",
    "Ⴃ", "Ⴄ", "Ⴅ", "Ⴆ", "Ⴇ", "Ⴈ", "Ⴉ", "Ⴊ", "Ⴋ", "Ⴌ", "Ⴍ", "Ⴎ", "Ⴏ", "Ⴐ", "Ⴑ", "Ⴒ",
    "Ⴓ", "Ⴔ", "Ⴕ", "Ⴖ", "Ⴗ", "Ⴘ", "Ⴙ", "Ⴚ", "Ⴛ", "Ⴜ", "Ⴝ", "Ⴞ", "Ⴟ", "Ⴠ", "Ⴡ", "Ⴢ",
    "Ⴣ", "Ⴤ", "Ⴥ", "Ⴧ", "Ⴭ", "Ꭰ", "Ꭱ", "Ꭲ", "Ꭳ", "Ꭴ", "Ꭵ", "Ꭶ", "Ꭷ", "Ꭸ", "Ꭹ", "Ꭺ",
    "Ꭻ", "Ꭼ", "Ꭽ", "Ꭾ", "Ꭿ", "Ꮀ", "Ꮁ", "Ꮂ", "Ꮃ", "Ꮄ", "Ꮅ", "Ꮆ", "Ꮇ", "Ꮈ", "Ꮉ", "Ꮊ",
    "Ꮋ", "Ꮌ", "Ꮍ", "Ꮎ", "Ꮏ", "Ꮐ", "Ꮑ", "Ꮒ", "Ꮓ", "Ꮔ", "Ꮕ", "Ꮖ", "Ꮗ", "Ꮘ", "Ꮙ", "Ꮚ",
    "Ꮛ", "Ꮜ", "Ꮝ", "Ꮞ", "Ꮟ", "Ꮠ", "Ꮡ", "Ꮢ", "Ꮣ", "Ꮤ", "Ꮥ", "Ꮦ", "Ꮧ", "Ꮨ", "Ꮩ", "Ꮪ",
    "Ꮫ", "Ꮬ", "Ꮭ", "Ꮮ", "Ꮯ", "Ꮰ", "Ꮱ", "Ꮲ", "Ꮳ", "Ꮴ", "Ꮵ", "Ꮶ", "Ꮷ", "Ꮸ", "Ꮹ", "Ꮺ",
    "Ꮻ", "Ꮼ", "Ꮽ", "Ꮾ", "Ꮿ", "Ᏸ", "Ᏹ", "Ᏺ", "Ᏻ", "Ᏼ", "Ᏽ", "Ა", "Ბ", "Გ", "Დ", "Ე",
    "Ვ", "Ზ", "Თ", "Ი", "Კ", "Ლ", "Მ", "Ნ", "Ო", "Პ", "Ჟ", "Რ", "Ს", "Ტ", "Უ", "Ფ",
    "Ქ", "Ღ", "Ყ", "Შ", "Ჩ", "Ც", "Ძ", "Წ", "Ჭ", "Ხ", "Ჯ", "Ჰ", "Ჱ", "Ჲ", "Ჳ", "Ჴ",
    "Ჵ", "Ჶ", "Ჷ", "Ჸ", "Ჹ", "Ჺ", "Ჽ", "Ჾ", "Ჿ", "Ẁ", "Ẃ", "Ẅ", "Ẇ", "Ẉ", "Ẋ", "Ẍ",
    "Ẏ", "Ẑ", "Ẓ", "Ẕ", "ẞ", "Ạ", "Ả", "Ấ", "Ầ", "Ẩ", "Ẫ", "Ậ", "Ắ", "Ằ", "Ẳ", "Ẵ",
    "Ặ", "Ẹ", "Ẻ", "Ẽ", "Ế", "Ề", "Ể", "Ễ", "Ệ", "Ỉ", "Ị", "Ọ", "Ỏ", "Ố", "Ồ", "Ổ",
    "Ỗ", "Ộ", "Ớ", "Ờ", "Ở", "Ỡ", "Ợ", "Ụ", "Ủ", "Ứ", "Ừ", "Ử", "Ữ", "Ự", "Ỳ", "Ỵ",
    "Ỷ", "Ỹ", "Ỻ", "Ỽ", "Ỿ", "ᾈ", "ᾉ", "ᾊ", "ᾋ", "ᾌ", "ᾍ", "ᾎ", "ᾏ", "ᾘ", "ᾙ", "ᾚ",
    "ᾛ", "ᾜ", "ᾝ", "ᾞ", "ᾟ", "ᾨ", "ᾩ", "ᾪ", "ᾫ", "ᾬ", "ᾭ", "ᾮ", "ᾯ", "Ᾰ", "Ᾱ", "Ὰ",
    "Ά", "ᾼ", "Ὲ", "Έ", "Ὴ", "Ή", "ῌ", "Ῐ", "Ῑ", "Ὶ", "Ί", "Ῠ", "Ῡ", "Ὺ", "Ύ", "Ῥ",
    "Ὸ", "Ό", "Ὼ", "Ώ", "ῼ", "Ↄ", "Ⓐ", "Ⓑ", "Ⓒ", "Ⓓ", "Ⓔ", "Ⓕ", "Ⓖ", "Ⓗ", "Ⓘ", "Ⓙ",
    "Ⓚ", "Ⓛ", "Ⓜ", "Ⓝ", "Ⓞ", "Ⓟ", "Ⓠ", "Ⓡ", "Ⓢ", "Ⓣ", "Ⓤ", "Ⓥ", "Ⓦ", "Ⓧ", "Ⓨ", "Ⓩ",
    "Ⲁ", "Ⲃ", "Ⲅ", "Ⲇ", "Ⲉ", "Ⲋ", "Ⲍ", "Ⲏ", "Ⲑ", "Ⲓ", "Ⲕ", "Ⲗ", "Ⲙ", "Ⲛ", "Ⲝ", "Ⲟ",
    "Ⲡ", "Ⲣ", "Ⲥ", "Ⲧ", "Ⲩ", "Ⲫ", "Ⲭ", "Ⲯ", "Ⲱ", "Ⲳ", "Ⲵ", "Ⲷ", "Ⲹ", "Ⲻ", "Ⲽ", "Ⲿ",
    "Ⳁ", "Ⳃ", "Ⳅ", "Ⳇ", "Ⳉ", "Ⳋ", "Ⳍ", "Ⳏ", "Ⳑ", "Ⳓ", "Ⳕ", "Ⳗ", "Ⳙ", "Ⳛ", "Ⳝ", "Ⳟ",
    "Ⳡ", "Ⳣ", "Ⳬ", "Ⳮ", "Ⳳ", "Ꚁ", "Ꚃ", "Ꚅ", "Ꚇ", "Ꚉ", "Ꚋ", "Ꚍ", "Ꚏ", "Ꚑ", "Ꚓ", "Ꚕ",
    "Ꚗ", "Ꚙ", "Ꚛ", "Ꞁ", "Ꞃ", "Ꞅ", "Ꞇ", "Ꞌ", "Ɥ", "Ꞑ", "Ꞓ", "Ꞗ", "Ꞙ", "Ꞛ", "Ꞝ", "Ꞟ",
    "Ꞡ", "Ꞣ", "Ꞥ", "Ꞧ", "Ꞩ", "Ɦ", "Ɜ", "Ɡ", "Ɬ", "Ɪ", "Ʞ", "Ʇ", "Ʝ", "Ꭓ", "Ꞵ", "Ꞷ",
    "Ꞹ", "Ꞻ", "Ꞽ", "Ꞿ", "Ꟁ", "Ꟃ", "Ꞔ", "Ʂ", "Ᶎ", "Ꟈ", "Ꟊ", "Ꟑ", "Ꟗ", "Ꟙ", "Ꟶ">>

\* what str.lower() makes of each of them, in the same order; a character
\* that cannot be written in a string of this module is named by its
\* code point ("U+0253")
LowerLetters ==
  <<"a", "b", "c", "d", "e", "f", "g", "h", "i", "j", "k", "l",
    "m", "n", "o", "p", "q", "r", "s", "t", "u", "v", "w", "x",
    "y", "z", "à", "á", "â", "ã", "ä", "å", "æ", "ç", "è", "é",
    "ê", "ë", "ì", "í", "î", "ï", "ð", "ñ", "ò", "ó", "ô", "õ",
    "ö", "ø", "ù", "ú", "û", "ü", "ý", "þ", "U+0253", "ƃ", "ƅ", "U+0254",
    "ƈ", "U+0256", "U+0257", "ƌ", "ǝ", "U+0259", "U+025B", "ƒ", "U+0260", "U+0263", "U+0269", "U+0268",
    "ƙ", "U+026F", "U+0272", "U+0275", "ơ", "ƣ", "ƥ", "ʀ", "ƨ", "ʃ", "ƭ", "ʈ",
    "ư", "ʊ", "ʋ", "ƴ", "ƶ", "ʒ", "ƹ", "ƽ", "ǆ", "ǆ", "ǉ", "ǉ",
    "ǌ", "ǌ", "ǎ", "ǐ", "ǒ", "ǔ", "ǖ", "ǘ", "ǚ", "ǜ", "ǟ", "ǡ",
    "ǣ", "ǥ", "ǧ", "ǩ", "ǫ", "ǭ", "ǯ", "ǳ", "ǳ", "ǵ", "ƕ", "ƿ",
    "ǹ", "ǻ", "ǽ", "ǿ", "ά", "έ", "ή", "ί", "ό", "ύ", "ώ", "α",
    "β", "γ", "δ", "ε", "ζ", "η", "θ", "ι", "κ", "λ", "μ", "ν",
    "ξ", "ο", "π", "ρ", "σ", "τ", "υ", "φ", "χ", "ψ", "ω", "ϊ",
    "ϋ", "ϗ", "ϙ", "ϛ", "ϝ", "ϟ", "ϡ", "ϣ", "ϥ", "ϧ", "ϩ", "ϫ",
    "ϭ", "ϯ", "θ", "ϸ", "ϲ", "ϻ", "U+037B", "U+037C", "U+037D", "ҁ", "ҋ", "ҍ",
    "ҏ", "ґ", "ғ", "ҕ", "җ", "ҙ", "қ", "ҝ", "ҟ", "ҡ", "ң", "ҥ",
    "ҧ", "ҩ", "ҫ", "ҭ", "ү", "ұ", "ҳ", "ҵ", "ҷ", "ҹ", "һ", "ҽ",
    "ҿ", "ӏ", "ӂ", "ӄ", "ӆ", "ӈ", "ӊ", "ӌ", "ӎ", "ӑ", "ӓ", "ӕ",
    "ӗ", "ә", "ӛ", "ӝ", "ӟ", "ӡ", "ӣ", "ӥ", "ӧ", "ө", "ӫ", "ӭ",
    "ӯ", "ӱ", "ӳ", "ӵ", "ӷ", "ӹ", "ӻ", "ӽ", "ӿ", "U+2D00", "U+2D01", "U+2D02",
    "U+2D03", "U+2D04", "U+2D05", "U+2D06", "U+2D07", "U+2D08", "U+2D09", "U+2D0A", "U+2D0B", "U+2D0C", "U+2D0D", "U+2D0E",
    "U+2D0F", "U+2D10", "U+2D11", "U+2D12", "U+2D13", "U+2D14", "U+2D15", "U+2D16", "U+2D17", "U+2D18", "U+2D19", "U+2D1A",
    "U+2D1B", "U+2D1C", "U+2D1D", "U+2D1E", "U+2D1F", "U+2D20", "U+2D21", "U+2D22", "U+2D23", "U+2D24", "U+2D25", "U+2D27",
    "U+2D2D", "U+AB70", "U+AB71", "U+AB72", "U+AB73", "U+AB74", "U+AB75", "U+AB76", "U+AB77", "U+AB78", "U+AB79", "U+AB7A",
    "U+AB7B", "U+AB7C", "U+AB7D", "U+AB7E", "U+AB7F", "ꮀ", "ꮁ", "ꮂ", "ꮃ", "ꮄ", "ꮅ", "ꮆ",
    "ꮇ", "ꮈ", "ꮉ", "ꮊ", "ꮋ", "ꮌ", "ꮍ", "ꮎ", "ꮏ", "ꮐ", "ꮑ", "ꮒ",
    "ꮓ", "ꮔ", "ꮕ", "ꮖ", "ꮗ", "ꮘ", "ꮙ", "ꮚ", "ꮛ", "ꮜ", "ꮝ", "ꮞ",
    "ꮟ", "ꮠ", "ꮡ", "ꮢ", "ꮣ", "ꮤ", "ꮥ", "ꮦ", "ꮧ", "ꮨ", "ꮩ", "ꮪ",
    "ꮫ", "ꮬ", "ꮭ", "ꮮ", "ꮯ", "ꮰ", "ꮱ", "ꮲ", "ꮳ", "ꮴ", "ꮵ", "ꮶ",
    "ꮷ", "ꮸ", "ꮹ", "ꮺ", "ꮻ", "ꮼ", "ꮽ", "ꮾ", "ꮿ", "ᏸ", "ᏹ", "ᏺ",
    "ᏻ", "ᏼ", "ᏽ", "ა", "ბ", "გ", "დ", "ე", "ვ", "ზ", "თ", "ი",
    "კ", "ლ", "მ", "ნ", "ო", "პ", "ჟ", "რ", "ს", "ტ", "უ", "ფ",
    "ქ", "ღ", "ყ", "შ", "ჩ", "ც", "ძ", "წ", "ჭ", "ხ", "ჯ", "ჰ",
    "ჱ", "ჲ", "ჳ", "ჴ", "ჵ", "ჶ", "ჷ", "ჸ", "ჹ", "ჺ", "ჽ", "ჾ",
    "ჿ", "ẁ", "ẃ", "ẅ", "ẇ", "ẉ", "ẋ", "ẍ", "ẏ", "ẑ", "ẓ", "ẕ",
    "ß", "ạ", "ả", "ấ", "ầ", "ẩ", "ẫ", "ậ", "ắ", "ằ", "ẳ", "ẵ",
    "ặ", "ẹ", "ẻ", "ẽ", "ế", "ề", "ể", "ễ", "ệ", "ỉ", "ị", "ọ",
    "ỏ", "ố", "ồ", "ổ", "ỗ", "ộ", "ớ", "ờ", "ở", "ỡ", "ợ", "ụ",
    "ủ", "ứ", "ừ", "ử", "ữ", "ự", "ỳ", "ỵ", "ỷ", "ỹ", "ỻ", "ỽ",
    "ỿ", "ᾀ", "ᾁ", "ᾂ", "ᾃ", "ᾄ", "ᾅ", "ᾆ", "ᾇ", "ᾐ", "ᾑ", "ᾒ",
    "ᾓ", "ᾔ", "ᾕ", "ᾖ", "ᾗ", "ᾠ", "ᾡ", "ᾢ", "ᾣ", "ᾤ", "ᾥ", "ᾦ",
    "ᾧ", "ᾰ", "ᾱ", "U+1F70", "U+1F71", "ᾳ", "U+1F72", "U+1F73", "U+1F74", "U+1F75", "ῃ", "ῐ",
    "ῑ", "U+1F76", "U+1F77", "ῠ", "ῡ", "U+1F7A", "U+1F7B", "ῥ", "U+1F78", "U+1F79", "U+1F7C", "U+1F7D",
    "ῳ", "ↄ", "ⓐ", "ⓑ", "ⓒ", "ⓓ", "ⓔ", "ⓕ", "ⓖ", "ⓗ", "ⓘ", "ⓙ",
    "ⓚ", "ⓛ", "ⓜ", "ⓝ", "ⓞ", "ⓟ", "ⓠ", "ⓡ", "ⓢ", "ⓣ", "ⓤ", "ⓥ",
    "ⓦ", "ⓧ", "ⓨ", "ⓩ", "ⲁ", "ⲃ", "ⲅ", "ⲇ", "ⲉ", "ⲋ", "ⲍ", "ⲏ",
    "ⲑ", "ⲓ", "ⲕ", "ⲗ", "ⲙ", "ⲛ", "ⲝ", "ⲟ", "ⲡ", "ⲣ", "ⲥ", "ⲧ",
    "ⲩ", "ⲫ", "ⲭ", "ⲯ", "ⲱ", "ⲳ", "ⲵ", "ⲷ", "ⲹ", "ⲻ", "ⲽ", "ⲿ",
    "ⳁ", "ⳃ", "ⳅ", "ⳇ", "ⳉ", "ⳋ", "ⳍ", "ⳏ", "ⳑ", "ⳓ", "ⳕ", "ⳗ",
    "ⳙ", "ⳛ", "ⳝ", "ⳟ", "ⳡ", "ⳣ", "ⳬ", "ⳮ", "ⳳ", "ꚁ", "ꚃ", "ꚅ",
    "ꚇ", "ꚉ", "ꚋ", "ꚍ", "ꚏ", "ꚑ", "ꚓ", "ꚕ", "ꚗ", "ꚙ", "ꚛ", "ꞁ",
    "ꞃ", "ꞅ", "ꞇ", "ꞌ", "U+0265", "ꞑ", "ꞓ", "ꞗ", "ꞙ", "ꞛ", "ꞝ", "ꞟ",
    "ꞡ", "ꞣ", "ꞥ", "ꞧ", "ꞩ", "U+0266", "U+025C", "U+0261", "U+026C", "U+026A", "ʞ", "ʇ",
    "ʝ", "U+AB53", "ꞵ", "ꞷ", "ꞹ", "ꞻ", "ꞽ", "ꞿ", "ꟁ", "ꟃ", "ꞔ", "ʂ",
    "ᶎ", "ꟈ", "ꟊ", "ꟑ", "ꟗ", "ꟙ", "ꟶ">>

UpperSet == {UpperLetters[k] : k \in DOMAIN UpperLetters}

LowerOf ==
  [c \in UpperSet |->
     LowerLetters[CHOOSE k \in DOMAIN UpperLetters : UpperLetters[k] = c]]

\* str.lower() on one character, the capital sigma apart
LowerChar(c) == IF c \in UpperSet THEN LowerOf[c] ELSE c

\* the cased characters: lower-case, upper-case and title-case letters
Cased ==
  {"A", "B", "C", "D", "E", "F", "G", "H", "I", "J", "K", "L", "M", "N", "O", "P",
   "Q", "R", "S", "T", "U", "V", "W", "X", "Y", "Z", "a", "b", "c", "d", "e", "f",
   "g", "h", "i", "j", "k", "l", "m", "n", "o", "p", "q", "r", "s", "t", "u", "v",
   "w", "x", "y", "z", "ª", "µ", "º", "À", "Á", "Â", "Ã", "Ä", "Å", "Æ", "Ç", "È",
   "É", "Ê", "Ë", "Ì", "Í", "Î", "Ï", "Ð", "Ñ", "Ò", "Ó", "Ô", "Õ", "Ö", "Ø", "Ù",
   "Ú", "Û", "Ü", "Ý", "Þ", "ß", "à", "á", "â", "ã", "ä", "å", "æ", "ç", "è", "é",
   "ê", "ë", "ì", "í", "î", "ï", "ð", "ñ", "ò", "ó", "ô", "õ", "ö", "ø", "ù", "ú",
   "û", "ü", "ý", "þ", "ÿ", "ƀ", "Ɓ", "Ƃ", "ƃ", "Ƅ", "ƅ", "Ɔ", "Ƈ", "ƈ", "Ɖ", "Ɗ",
   "Ƌ", "ƌ", "ƍ", "Ǝ", "Ə", "Ɛ", "Ƒ", "ƒ", "Ɠ", "Ɣ", "ƕ", "Ɩ", "Ɨ", "Ƙ", "ƙ", "ƚ",
   "ƛ", "Ɯ", "Ɲ", "ƞ", "Ɵ", "Ơ", "ơ", "Ƣ", "ƣ", "Ƥ", "ƥ", "Ʀ", "Ƨ", "ƨ", "Ʃ", "ƪ",
   "ƫ", "Ƭ", "ƭ", "Ʈ", "Ư", "ư", "Ʊ", "Ʋ", "Ƴ", "ƴ", "Ƶ", "ƶ", "Ʒ", "Ƹ", "ƹ", "ƺ",
   "Ƽ", "ƽ", "ƾ", "ƿ", "Ǆ", "ǅ", "ǆ", "Ǉ", "ǈ", "ǉ", "Ǌ", "ǋ", "ǌ", "Ǎ", "ǎ", "Ǐ",
   "ǐ", "Ǒ", "ǒ", "Ǔ", "ǔ", "Ǖ", "ǖ", "Ǘ", "ǘ", "Ǚ", "ǚ", "Ǜ", "ǜ", "ǝ", "Ǟ", "ǟ",
   "Ǡ", "ǡ", "Ǣ", "ǣ", "Ǥ", "ǥ", "Ǧ", "ǧ", "Ǩ", "ǩ", "Ǫ", "ǫ", "Ǭ", "ǭ", "Ǯ", "ǯ",
   "ǰ", "Ǳ", "ǲ", "ǳ", "Ǵ", "ǵ", "Ƕ", "Ƿ", "Ǹ", "ǹ", "Ǻ", "ǻ", "Ǽ", "ǽ", "Ǿ", "ǿ",
   "ʀ", "ʁ", "ʂ", "ʃ", "ʄ", "ʅ", "ʆ", "ʇ", "ʈ", "ʉ", "ʊ", "ʋ", "ʌ", "ʍ", "ʎ", "ʏ",
   "ʐ", "ʑ", "ʒ", "ʓ", "ʕ", "ʖ", "ʗ", "ʘ", "ʙ", "ʚ", "ʛ", "ʜ", "ʝ", "ʞ", "ʟ", "ʠ",
   "ʡ", "ʢ", "ʣ", "ʤ", "ʥ", "ʦ", "ʧ", "ʨ", "ʩ", "ʪ", "ʫ", "ʬ", "ʭ", "ʮ", "ʯ", "ʰ",
   "ʱ", "ʲ", "ʳ", "ʴ", "ʵ", "ʶ", "ʷ", "ʸ", "ˀ", "ˁ", "ˠ", "ˡ", "ˢ", "ˣ", "ˤ", "Ά",
   "Έ", "Ή", "Ί", "Ό", "Ύ", "Ώ", "ΐ", "Α", "Β", "Γ", "Δ", "Ε", "Ζ", "Η", "Θ", "Ι",
   "Κ", "Λ", "Μ", "Ν", "Ξ", "Ο", "Π", "Ρ", "Σ", "Τ", "Υ", "Φ", "Χ", "Ψ", "Ω", "Ϊ",
   "Ϋ", "ά", "έ", "ή", "ί", "ΰ", "α", "β", "γ", "δ", "ε", "ζ", "η", "θ", "ι", "κ",
   "λ", "μ", "ν", "ξ", "ο", "π", "ρ", "ς", "σ", "τ", "υ", "φ", "χ", "ψ", "ω", "ϊ",
   "ϋ", "ό", "ύ", "ώ", "Ϗ", "ϐ", "ϑ", "ϒ", "ϓ", "ϔ", "ϕ", "ϖ", "ϗ", "Ϙ", "ϙ", "Ϛ",
   "ϛ", "Ϝ", "ϝ", "Ϟ", "ϟ", "Ϡ", "ϡ", "Ϣ", "ϣ", "Ϥ", "ϥ", "Ϧ", "ϧ", "Ϩ", "ϩ", "Ϫ",
   "ϫ", "Ϭ", "ϭ", "Ϯ", "ϯ", "ϰ", "ϱ", "ϲ", "ϳ", "ϴ", "ϵ", "Ϸ", "ϸ", "Ϲ", "Ϻ", "ϻ",
   "ϼ", "Ͻ", "Ͼ", "Ͽ", "Ҁ", "ҁ", "Ҋ", "ҋ", "Ҍ", "ҍ", "Ҏ", "ҏ", "Ґ", "ґ", "Ғ", "ғ",
   "Ҕ", "ҕ", "Җ", "җ", "Ҙ", "ҙ", "Қ", "қ", "Ҝ", "ҝ", "Ҟ", "ҟ", "Ҡ", "ҡ", "Ң", "ң",
   "Ҥ", "ҥ", "Ҧ", "ҧ", "Ҩ", "ҩ", "Ҫ", "ҫ", "Ҭ", "ҭ", "Ү", "ү", "Ұ", "ұ", "Ҳ", "ҳ",
   "Ҵ", "ҵ", "Ҷ", "ҷ", "Ҹ", "ҹ", "Һ", "һ", "Ҽ", "ҽ", "Ҿ", "ҿ", "Ӏ", "Ӂ", "ӂ", "Ӄ",
   "ӄ", "Ӆ", "ӆ", "Ӈ", "ӈ", "Ӊ", "ӊ", "Ӌ", "ӌ", "Ӎ", "ӎ", "ӏ", "Ӑ", "ӑ", "Ӓ", "ӓ",
   "Ӕ", "ӕ", "Ӗ", "ӗ", "Ә", "ә", "Ӛ", "ӛ", "Ӝ", "ӝ", "Ӟ", "ӟ", "Ӡ", "ӡ", "Ӣ", "ӣ",
   "Ӥ", "ӥ", "Ӧ", "ӧ", "Ө", "ө", "Ӫ", "ӫ", "Ӭ", "ӭ", "Ӯ", "ӯ", "Ӱ", "ӱ", "Ӳ", "ӳ",
   "Ӵ", "ӵ", "Ӷ", "ӷ", "Ӹ", "ӹ", "Ӻ", "ӻ", "Ӽ", "ӽ", "Ӿ", "ӿ", "ր", "ց", "ւ", "փ",
   "ք", "օ", "ֆ", "և", "ֈ", "Ⴀ", "Ⴁ", "Ⴂ", "Ⴃ", "Ⴄ", "Ⴅ", "Ⴆ", "Ⴇ", "Ⴈ", "Ⴉ", "Ⴊ",
   "Ⴋ", "Ⴌ", "Ⴍ", "Ⴎ", "Ⴏ", "Ⴐ", "Ⴑ", "Ⴒ", "Ⴓ", "Ⴔ", "Ⴕ", "Ⴖ", "Ⴗ", "Ⴘ", "Ⴙ", "Ⴚ",
   "Ⴛ", "Ⴜ", "Ⴝ", "Ⴞ", "Ⴟ", "Ⴠ", "Ⴡ", "Ⴢ", "Ⴣ", "Ⴤ", "Ⴥ", "Ⴧ", "Ⴭ", "ა", "ბ", "გ",
   "დ", "ე", "ვ", "ზ", "თ", "ი", "კ", "ლ", "მ", "ნ", "ო", "პ", "ჟ", "რ", "ს", "ტ",
   "უ", "ფ", "ქ", "ღ", "ყ", "შ", "ჩ", "ც", "ძ", "წ", "ჭ", "ხ", "ჯ", "ჰ", "ჱ", "ჲ",
   "ჳ", "ჴ", "ჵ", "ჶ", "ჷ", "ჸ", "ჹ", "ჺ", "ჽ", "ჾ", "ჿ", "Ꭰ", "Ꭱ", "Ꭲ", "Ꭳ", "Ꭴ",
   "Ꭵ", "Ꭶ", "Ꭷ", "Ꭸ", "Ꭹ", "Ꭺ", "Ꭻ", "Ꭼ", "Ꭽ", "Ꭾ", "Ꭿ", "Ꮀ", "Ꮁ", "Ꮂ", "Ꮃ", "Ꮄ",
   "Ꮅ", "Ꮆ", "Ꮇ", "Ꮈ", "Ꮉ", "Ꮊ", "Ꮋ", "Ꮌ", "Ꮍ", "Ꮎ", "Ꮏ", "Ꮐ", "Ꮑ", "Ꮒ", "Ꮓ", "Ꮔ",
   "Ꮕ", "Ꮖ", "Ꮗ", "Ꮘ", "Ꮙ", "Ꮚ", "Ꮛ", "Ꮜ", "Ꮝ", "Ꮞ", "Ꮟ", "Ꮠ", "Ꮡ", "Ꮢ", "Ꮣ", "Ꮤ",
   "Ꮥ", "Ꮦ", "Ꮧ", "Ꮨ", "Ꮩ", "Ꮪ", "Ꮫ", "Ꮬ", "Ꮭ", "Ꮮ", "Ꮯ", "Ꮰ", "Ꮱ", "Ꮲ", "Ꮳ", "Ꮴ",
   "Ꮵ", "Ꮶ", "Ꮷ", "Ꮸ", "Ꮹ", "Ꮺ", "Ꮻ", "Ꮼ", "Ꮽ", "Ꮾ", "Ꮿ", "Ᏸ", "Ᏹ", "Ᏺ", "Ᏻ", "Ᏼ",
   "Ᏽ", "ᏸ", "ᏹ", "ᏺ", "ᏻ", "ᏼ", "ᏽ", "ᲀ", "ᲁ", "ᲂ", "ᲃ", "ᲄ", "ᲅ", "ᲆ", "ᲇ", "ᲈ",
   "Ა", "Ბ", "Გ", "Დ", "Ე", "Ვ", "Ზ", "Თ", "Ი", "Კ", "Ლ", "Მ", "Ნ", "Ო", "Პ", "Ჟ",
   "Რ", "Ს", "Ტ", "Უ", "Ფ", "Ქ", "Ღ", "Ყ", "Შ", "Ჩ", "Ც", "Ძ", "Წ", "Ჭ", "Ხ", "Ჯ",
   "Ჰ", "Ჱ", "Ჲ", "Ჳ", "Ჴ", "Ჵ", "Ჶ", "Ჷ", "Ჸ", "Ჹ", "Ჺ", "Ჽ", "Ჾ", "Ჿ", "ᶀ", "ᶁ",
   "ᶂ", "ᶃ", "ᶄ", "ᶅ", "ᶆ", "ᶇ", "ᶈ", "ᶉ", "ᶊ", "ᶋ", "ᶌ", "ᶍ", "ᶎ", "ᶏ", "ᶐ", "ᶑ",
   "ᶒ", "ᶓ", "ᶔ", "ᶕ", "ᶖ", "ᶗ", "ᶘ", "ᶙ", "ᶚ", "ᶛ", "ᶜ", "ᶝ", "ᶞ", "ᶟ", "ᶠ", "ᶡ",
   "ᶢ", "ᶣ", "ᶤ", "ᶥ", "ᶦ", "ᶧ", "ᶨ", "ᶩ", "ᶪ", "ᶫ", "ᶬ", "ᶭ", "ᶮ", "ᶯ", "ᶰ", "ᶱ",
   "ᶲ", "ᶳ", "ᶴ", "ᶵ", "ᶶ", "ᶷ", "ᶸ", "ᶹ", "ᶺ", "ᶻ", "ᶼ", "ᶽ", "ᶾ", "ᶿ", "Ẁ", "ẁ",
   "Ẃ", "ẃ", "Ẅ", "ẅ", "Ẇ", "ẇ", "Ẉ", "ẉ", "Ẋ", "ẋ", "Ẍ", "ẍ", "Ẏ", "ẏ", "Ẑ", "ẑ",
   "Ẓ", "ẓ", "Ẕ", "ẕ", "ẖ", "ẗ", "ẘ", "ẙ", "ẚ", "ẛ", "ẜ", "ẝ", "ẞ", "ẟ", "Ạ", "ạ",
   "Ả", "ả", "Ấ", "ấ", "Ầ", "ầ", "Ẩ", "ẩ", "Ẫ", "ẫ", "Ậ", "ậ", "Ắ", "ắ", "Ằ", "ằ",
   "Ẳ", "ẳ", "Ẵ", "ẵ", "Ặ", "ặ", "Ẹ", "ẹ", "Ẻ", "ẻ", "Ẽ", "ẽ", "Ế", "ế", "Ề", "ề",
   "Ể", "ể", "Ễ", "ễ", "Ệ", "ệ", "Ỉ", "ỉ", "Ị", "ị", "Ọ", "ọ", "Ỏ", "ỏ", "Ố", "ố",
   "Ồ", "ồ", "Ổ", "ổ", "Ỗ", "ỗ", "Ộ", "ộ", "Ớ", "ớ", "Ờ", "ờ", "Ở", "ở", "Ỡ", "ỡ",
   "Ợ", "ợ", "Ụ", "ụ", "Ủ", "ủ", "Ứ", "ứ", "Ừ", "ừ", "Ử", "ử", "Ữ", "ữ", "Ự", "ự",
   "Ỳ", "ỳ", "Ỵ", "ỵ", "Ỷ", "ỷ", "Ỹ", "ỹ", "Ỻ", "ỻ", "Ỽ", "ỽ", "Ỿ", "ỿ", "ᾀ", "ᾁ",
   "ᾂ", "ᾃ", "ᾄ", "ᾅ", "ᾆ", "ᾇ", "ᾈ", "ᾉ", "ᾊ", "ᾋ", "ᾌ", "ᾍ", "ᾎ", "ᾏ", "ᾐ", "ᾑ",
   "ᾒ", "ᾓ", "ᾔ", "ᾕ", "ᾖ", "ᾗ", "ᾘ", "ᾙ", "ᾚ", "ᾛ", "ᾜ", "ᾝ", "ᾞ", "ᾟ", "ᾠ", "ᾡ",
   "ᾢ", "ᾣ", "ᾤ", "ᾥ", "ᾦ", "ᾧ", "ᾨ", "ᾩ", "ᾪ", "ᾫ", "ᾬ", "ᾭ", "ᾮ", "ᾯ", "ᾰ", "ᾱ",
   "ᾲ", "ᾳ", "ᾴ", "ᾶ", "ᾷ", "Ᾰ", "Ᾱ", "Ὰ", "Ά", "ᾼ", "ι", "ῂ", "ῃ", "ῄ", "ῆ", "ῇ",
   "Ὲ", "Έ", "Ὴ", "Ή", "ῌ", "ῐ", "ῑ", "ῒ", "ΐ", "ῖ", "ῗ", "Ῐ", "Ῑ", "Ὶ", "Ί", "ῠ",
   "ῡ", "ῢ", "ΰ", "ῤ", "ῥ", "ῦ", "ῧ", "Ῠ", "Ῡ", "Ὺ", "Ύ", "Ῥ", "ῲ", "ῳ", "ῴ", "ῶ",
   "ῷ", "Ὸ", "Ό", "Ὼ", "Ώ", "ῼ", "ₐ", "ₑ", "ₒ", "ₓ", "ₔ", "ₕ", "ₖ", "ₗ", "ₘ", "ₙ",
   "ₚ", "ₛ", "ₜ", "Ↄ", "ↄ", "Ⓐ", "Ⓑ", "Ⓒ", "Ⓓ", "Ⓔ", "Ⓕ", "Ⓖ", "Ⓗ", "Ⓘ", "Ⓙ", "Ⓚ",
   "Ⓛ", "Ⓜ", "Ⓝ", "Ⓞ", "Ⓟ", "Ⓠ", "Ⓡ", "Ⓢ", "Ⓣ", "Ⓤ", "Ⓥ", "Ⓦ", "Ⓧ", "Ⓨ", "Ⓩ", "ⓐ",
   "ⓑ", "ⓒ", "ⓓ", "ⓔ", "ⓕ", "ⓖ", "ⓗ", "ⓘ", "ⓙ", "ⓚ", "ⓛ", "ⓜ", "ⓝ", "ⓞ", "ⓟ", "ⓠ",
   "ⓡ", "ⓢ", "ⓣ", "ⓤ", "ⓥ", "ⓦ", "ⓧ", "ⓨ", "ⓩ", "Ⲁ", "ⲁ", "Ⲃ", "ⲃ", "Ⲅ", "ⲅ", "Ⲇ",
   "ⲇ", "Ⲉ", "ⲉ", "Ⲋ", "ⲋ", "Ⲍ", "ⲍ", "Ⲏ", "ⲏ", "Ⲑ", "ⲑ", "Ⲓ", "ⲓ", "Ⲕ", "ⲕ", "Ⲗ",
   "ⲗ", "Ⲙ", "ⲙ", "Ⲛ", "ⲛ", "Ⲝ", "ⲝ", "Ⲟ", "ⲟ", "Ⲡ", "ⲡ", "Ⲣ", "ⲣ", "Ⲥ", "ⲥ", "Ⲧ",
   "ⲧ", "Ⲩ", "ⲩ", "Ⲫ", "ⲫ", "Ⲭ", "ⲭ", "Ⲯ", "ⲯ", "Ⲱ", "ⲱ", "Ⲳ", "ⲳ", "Ⲵ", "ⲵ", "Ⲷ",
   "ⲷ", "Ⲹ", "ⲹ", "Ⲻ", "ⲻ", "Ⲽ", "ⲽ", "Ⲿ", "ⲿ", "Ⳁ", "ⳁ", "Ⳃ", "ⳃ", "Ⳅ", "ⳅ", "Ⳇ",
   "ⳇ", "Ⳉ", "ⳉ", "Ⳋ", "ⳋ", "Ⳍ", "ⳍ", "Ⳏ", "ⳏ", "Ⳑ", "ⳑ", "Ⳓ", "ⳓ", "Ⳕ", "ⳕ", "Ⳗ",
   "ⳗ", "Ⳙ", "ⳙ", "Ⳛ", "ⳛ", "Ⳝ", "ⳝ", "Ⳟ", "ⳟ", "Ⳡ", "ⳡ", "Ⳣ", "ⳣ", "ⳤ", "Ⳬ", "ⳬ",
   "Ⳮ", "ⳮ", "Ⳳ", "ⳳ", "Ꚁ", "ꚁ", "Ꚃ", "ꚃ", "Ꚅ", "ꚅ", "Ꚇ", "ꚇ", "Ꚉ", "ꚉ", "Ꚋ", "ꚋ",
   "Ꚍ", "ꚍ", "Ꚏ", "ꚏ", "Ꚑ", "ꚑ", "Ꚓ", "ꚓ", "Ꚕ", "ꚕ", "Ꚗ", "ꚗ", "Ꚙ", "ꚙ", "Ꚛ", "ꚛ",
   "ꚜ", "ꚝ", "Ꞁ", "ꞁ", "Ꞃ", "ꞃ", "Ꞅ", "ꞅ", "Ꞇ", "ꞇ", "Ꞌ", "ꞌ", "Ɥ", "ꞎ", "Ꞑ", "ꞑ",
   "Ꞓ", "ꞓ", "ꞔ", "ꞕ", "Ꞗ", "ꞗ", "Ꞙ", "ꞙ", "Ꞛ", "ꞛ", "Ꞝ", "ꞝ", "Ꞟ", "ꞟ", "Ꞡ", "ꞡ",
   "Ꞣ", "ꞣ", "Ꞥ", "ꞥ", "Ꞧ", "ꞧ", "Ꞩ", "ꞩ", "Ɦ", "Ɜ", "Ɡ", "Ɬ", "Ɪ", "ꞯ", "Ʞ", "Ʇ",
   "Ʝ", "Ꭓ", "Ꞵ", "ꞵ", "Ꞷ", "ꞷ", "Ꞹ", "ꞹ", "Ꞻ", "ꞻ", "Ꞽ", "ꞽ", "Ꞿ", "ꞿ", "Ꟁ", "ꟁ",
   "Ꟃ", "ꟃ", "Ꞔ", "Ʂ", "Ᶎ", "Ꟈ", "ꟈ", "Ꟊ", "ꟊ", "Ꟑ", "ꟑ", "ꟓ", "ꟕ", "Ꟗ", "ꟗ", "Ꟙ",
   "ꟙ", "Ꟶ", "ꟶ", "ꟸ", "ꟹ", "ꟺ", "ꮀ", "ꮁ", "ꮂ", "ꮃ", "ꮄ", "ꮅ", "ꮆ", "ꮇ", "ꮈ", "ꮉ",
   "ꮊ", "ꮋ", "ꮌ", "ꮍ", "ꮎ", "ꮏ", "ꮐ", "ꮑ", "ꮒ", "ꮓ", "ꮔ", "ꮕ", "ꮖ", "ꮗ", "ꮘ", "ꮙ",
   "ꮚ", "ꮛ", "ꮜ", "ꮝ", "ꮞ", "ꮟ", "ꮠ", "ꮡ", "ꮢ", "ꮣ", "ꮤ", "ꮥ", "ꮦ", "ꮧ", "ꮨ", "ꮩ",
   "ꮪ", "ꮫ", "ꮬ", "ꮭ", "ꮮ", "ꮯ", "ꮰ", "ꮱ", "ꮲ", "ꮳ", "ꮴ", "ꮵ", "ꮶ", "ꮷ", "ꮸ", "ꮹ",
   "ꮺ", "ꮻ", "ꮼ", "ꮽ", "ꮾ", "ꮿ", "U+0253", "U+0254", "U+0256", "U+0257", "U+0259", "U+025B", "U+025C", "U+0260", "U+0261", "U+0263",
   "U+0265", "U+0266", "U+0268", "U+0269", "U+026A", "U+026C", "U+026F", "U+0272", "U+0275", "U+037B", "U+037C", "U+037D", "U+1F70", "U+1F71", "U+1F72", "U+1F73",
   "U+1F74", "U+1F75", "U+1F76", "U+1F77", "U+1F78", "U+1F79", "U+1F7A", "U+1F7B", "U+1F7C", "U+1F7D", "U+2D00", "U+2D01", "U+2D02", "U+2D03", "U+2D04", "U+2D05",
   "U+2D06", "U+2D07", "U+2D08", "U+2D09", "U+2D0A", "U+2D0B", "U+2D0C", "U+2D0D", "U+2D0E", "U+2D0F", "U+2D10", "U+2D11", "U+2D12", "U+2D13", "U+2D14", "U+2D15",
   "U+2D16", "U+2D17", "U+2D18", "U+2D19", "U+2D1A", "U+2D1B", "U+2D1C", "U+2D1D", "U+2D1E", "U+2D1F", "U+2D20", "U+2D21", "U+2D22", "U+2D23", "U+2D24", "U+2D25",
   "U+2D27", "U+2D2D", "U+AB53", "U+AB70", "U+AB71", "U+AB72", "U+AB73", "U+AB74", "U+AB75", "U+AB76", "U+AB77", "U+AB78", "U+AB79", "U+AB7A", "U+AB7B", "U+AB7C",
   "U+AB7D", "U+AB7E", "U+AB7F"}

\* the characters the final-sigma rule skips (Case_Ignorable)
CaseIgnorable ==
  {"'", ".", ":", "^", "¨", "­", "¯", "´", "·", "¸", "ʰ", "ʱ", "ʲ", "ʳ", "ʴ", "ʵ",
   "ʶ", "ʷ", "ʸ", "ʹ", "ʺ", "ʻ", "ʼ", "ʽ", "ʾ", "ʿ", "ˀ", "ˁ", "˂", "˃", "˄", "˅",
   "ˆ", "ˇ", "ˈ", "ˉ", "ˊ", "ˋ", "ˌ", "ˍ", "ˎ", "ˏ", "ː", "ˑ", "˒", "˓", "˔", "˕",
   "˖", "˗", "˘", "˙", "˚", "˛", "˜", "˝", "˞", "˟", "ˠ", "ˡ", "ˢ", "ˣ", "ˤ", "˥",
   "˦", "˧", "˨", "˩", "˪", "˫", "ˬ", "˭", "ˮ", "˯", "˰", "˱", "˲", "˳", "˴", "˵",
   "˶", "˷", "˸", "˹", "˺", "˻", "˼", "˽", "˾", "˿", "΄", "΅", "·", "҃", "҄", "҅",
   "҆", "҇", "҈", "҉", "֑", "֒", "֓", "֔", "֕", "֖", "֗", "֘", "֙", "֚", "֛", "֜",
   "֝", "֞", "֟", "֠", "֡", "֢", "֣", "֤", "֥", "֦", "֧", "֨", "֩", "֪", "֫", "֬",
   "֭", "֮", "֯", "ְ", "ֱ", "ֲ", "ֳ", "ִ", "ֵ", "ֶ", "ַ", "ָ", "ֹ", "ֺ", "ֻ", "ּ",
   "ֽ", "ֿ", "ׁ", "ׂ", "ׄ", "ׅ", "ׇ", "״", "ۖ", "ۗ", "ۘ", "ۙ", "ۚ", "ۛ", "ۜ", "۝",
   "۟", "۠", "ۡ", "ۢ", "ۣ", "ۤ", "ۥ", "ۦ", "ۧ", "ۨ", "۪", "۫", "۬", "ۭ", "ަ", "ާ",
   "ި", "ީ", "ު", "ޫ", "ެ", "ޭ", "ޮ", "ޯ", "ް", "߫", "߬", "߭", "߮", "߯", "߰", "߱",
   "߲", "߳", "ߴ", "ߵ", "ߺ", "߽", "࢈", "࢐", "࢑", "࢘", "࢙", "࢚", "࢛", "࢜", "࢝", "࢞",
   "࢟", "ࣉ", "࣊", "࣋", "࣌", "࣍", "࣎", "࣏", "࣐", "࣑", "࣒", "࣓", "ࣔ", "ࣕ", "ࣖ", "ࣗ",
   "ࣘ", "ࣙ", "ࣚ", "ࣛ", "ࣜ", "ࣝ", "ࣞ", "ࣟ", "࣠", "࣡", "࣢", "ࣣ", "ࣤ", "ࣥ", "ࣦ", "ࣧ",
   "ࣨ", "ࣩ", "࣪", "࣫", "࣬", "࣭", "࣮", "࣯", "ࣰ", "ࣱ", "ࣲ", "ࣳ", "ࣴ", "ࣵ", "ࣶ", "ࣷ",
   "ࣸ", "ࣹ", "ࣺ", "ࣻ", "ࣼ", "ࣽ", "ࣾ", "ࣿ", "ঁ", "়", "ু", "ূ", "ৃ", "ৄ", "্", "ৢ",
   "ৣ", "৾", "ઁ", "ં", "઼", "ુ", "ૂ", "ૃ", "ૄ", "ૅ", "ે", "ૈ", "્", "ૢ", "ૣ", "ૺ",
   "ૻ", "ૼ", "૽", "૾", "૿", "ஂ", "ீ", "்", "ಁ", "಼", "ಿ", "ೆ", "ೌ", "್", "ೢ", "ೣ",
   "ඁ", "්", "ි", "ී", "ු", "ූ", "ັ", "ິ", "ີ", "ຶ", "ື", "ຸ", "ູ", "຺", "ົ", "ຼ",
   "ໆ", "່", "້", "໊", "໋", "໌", "ໍ", "ྀ", "ཱྀ", "ྂ", "ྃ", "྄", "྆", "྇", "ྍ", "ྎ",
   "ྏ", "ྐ", "ྑ", "ྒ", "ྒྷ", "ྔ", "ྕ", "ྖ", "ྗ", "ྙ", "ྚ", "ྛ", "ྜ", "ྜྷ", "ྞ", "ྟ",
   "ྠ", "ྡ", "ྡྷ", "ྣ", "ྤ", "ྥ", "ྦ", "ྦྷ", "ྨ", "ྩ", "ྪ", "ྫ", "ྫྷ", "ྭ", "ྮ", "ྯ",
   "ྰ", "ྱ", "ྲ", "ླ", "ྴ", "ྵ", "ྶ", "ྷ", "ྸ", "ྐྵ", "ྺ", "ྻ", "ྼ", "࿆", "ႂ", "ႅ",
   "ႆ", "ႍ", "ႝ", "ჼ", "឴", "឵", "ិ", "ី", "ឹ", "ឺ", "ុ", "ូ", "ួ", "ំ", "៉", "៊",
   "់", "៌", "៍", "៎", "៏", "័", "៑", "្", "៓", "ៗ", "៝", "ᢅ", "ᢆ", "ᢩ", "ᪧ", "᪰",
   "᪱", "᪲", "᪳", "᪴", "᪵", "᪶", "᪷", "᪸", "᪹", "᪺", "᪻", "᪼", "᪽", "᪾", "ᪿ", "ᫀ",
   "᫁", "᫂", "᫃", "᫄", "᫅", "᫆", "᫇", "᫈", "᫉", "᫊", "᫋", "ᫌ", "ᫍ", "ᫎ", "ᮀ", "ᮁ",
   "ᮢ", "ᮣ", "ᮤ", "ᮥ", "ᮨ", "ᮩ", "᮫", "ᮬ", "ᮭ", "᯦", "ᯨ", "ᯩ", "ᯭ", "ᯯ", "ᯰ", "ᯱ",
   "᳐", "᳑", "᳒", "᳔", "᳕", "᳖", "᳗", "᳘", "᳙", "᳚", "᳛", "᳜", "᳝", "᳞", "᳟", "᳠",
   "᳢", "᳣", "᳤", "᳥", "᳦", "᳧", "᳨", "᳭", "᳴", "᳸", "᳹", "ᶛ", "ᶜ", "ᶝ", "ᶞ", "ᶟ",
   "ᶠ", "ᶡ", "ᶢ", "ᶣ", "ᶤ", "ᶥ", "ᶦ", "ᶧ", "ᶨ", "ᶩ", "ᶪ", "ᶫ", "ᶬ", "ᶭ", "ᶮ", "ᶯ",
   "ᶰ", "ᶱ", "ᶲ", "ᶳ", "ᶴ", "ᶵ", "ᶶ", "ᶷ", "ᶸ", "ᶹ", "ᶺ", "ᶻ", "ᶼ", "ᶽ", "ᶾ", "ᶿ",
   "᷀", "᷁", "᷂", "᷃", "᷄", "᷅", "᷆", "᷇", "᷈", "᷉", "᷊", "᷋", "᷌", "᷍", "᷎", "᷏",
   "᷐", "᷑", "᷒", "ᷓ", "ᷔ", "ᷕ", "ᷖ", "ᷗ", "ᷘ", "ᷙ", "ᷚ", "ᷛ", "ᷜ", "ᷝ", "ᷞ", "ᷟ",
   "ᷠ", "ᷡ", "ᷢ", "ᷣ", "ᷤ", "ᷥ", "ᷦ", "ᷧ", "ᷨ", "ᷩ", "ᷪ", "ᷫ", "ᷬ", "ᷭ", "ᷮ", "ᷯ",
   "ᷰ", "ᷱ", "ᷲ", "ᷳ", "ᷴ", "᷵", "᷶", "᷷", "᷸", "᷹", "᷺", "᷻", "᷼", "᷽", "᷾", "᷿",
   "᾽", "᾿", "῀", "῁", "῍", "῎", "῏", "῝", "῞", "῟", "῭", "΅", "`", "´", "῾", "ₐ",
   "ₑ", "ₒ", "ₓ", "ₔ", "ₕ", "ₖ", "ₗ", "ₘ", "ₙ", "ₚ", "ₛ", "ₜ", "⃐", "⃑", "⃒", "⃓",
   "⃔", "⃕", "⃖", "⃗", "⃘", "⃙", "⃚", "⃛", "⃜", "⃝", "⃞", "⃟", "⃠", "⃡", "⃢", "⃣",
   "⃤", "⃥", "⃦", "⃧", "⃨", "⃩", "⃪", "⃫", "⃬", "⃭", "⃮", "⃯", "⃰", "⳯", "⳰", "⳱",
   "ⷠ", "ⷡ", "ⷢ", "ⷣ", "ⷤ", "ⷥ", "ⷦ", "ⷧ", "ⷨ", "ⷩ", "ⷪ", "ⷫ", "ⷬ", "ⷭ", "ⷮ", "ⷯ",
   "ⷰ", "ⷱ", "ⷲ", "ⷳ", "ⷴ", "ⷵ", "ⷶ", "ⷷ", "ⷸ", "ⷹ", "ⷺ", "ⷻ", "ⷼ", "ⷽ", "ⷾ", "ⷿ",
   "゙", "゚", "゛", "゜", "ゝ", "ゞ", "ー", "ヽ", "ヾ", "ꓸ", "ꓹ", "ꓺ", "ꓻ", "ꓼ", "ꓽ", "ꚜ",
   "ꚝ", "ꚞ", "ꚟ", "꛰", "꛱", "ꞈ", "꞉", "꞊", "ꟲ", "ꟳ", "ꟴ", "ꟸ", "ꟹ", "꣄", "ꣅ", "꣠",
   "꣡", "꣢", "꣣", "꣤", "꣥", "꣦", "꣧", "꣨", "꣩", "꣪", "꣫", "꣬", "꣭", "꣮", "꣯", "꣰",
   "꣱", "ꣿ", "ꦀ", "ꦁ", "ꦂ", "꦳", "ꦶ", "ꦷ", "ꦸ", "ꦹ", "ꦼ", "ꦽ", "ꧏ", "ꧥ", "ꧦ", "ꪰ",
   "ꪲ", "ꪳ", "ꪴ", "ꪷ", "ꪸ", "ꪾ", "꪿", "꫁", "ꫝ", "ꫬ", "ꫭ", "ꫳ", "ꫴ", "꫶", "ꯥ", "ꯨ",
   "꯭", "﮲", "﮳", "﮴", "﮵", "﮶", "﮷", "﮸", "﮹", "﮺", "﮻", "﮼", "﮽", "﮾", "﮿", "﯀",
   "﯁", "﯂", "﻿", "ﾞ", "ﾟ", "￣", "￹", "￺", "￻"}

\* the capital sigma at position k of s becomes the final sigma: a cased
\* character precedes it and none follows it, case-ignorable characters
\* skipped
FinalSigma(s, k) ==
  LET before == {j \in 1..(k - 1) : s[j] \notin CaseIgnorable}
      after == {j \in (k + 1)..Len(s) : s[j] \notin CaseIgnorable}
  IN /\ before # {}
     /\ s[CHOOSE j \in before : \A h \in before : h <= j] \in Cased
     /\ \/ after = {}
        \/ s[CHOOSE j \in after : \A h \in after : j <= h] \notin Cased

\* str.lower()
Lower(s) ==
  [k \in 1..Len(s) |->
     IF s[k] = "Σ" THEN (IF FinalSigma(s, k) THEN "ς" ELSE "σ")
     ELSE LowerChar(s[k])]

RECURSIVE LStrip(_)
LStrip(s) ==
  IF s = <<>> THEN s
  ELSE IF IsSpace(Head(s)) THEN LStrip(Tail(s)) ELSE s

RECURSIVE RStrip(_)
RStrip(s) ==
  IF s = <<>> THEN s
  ELSE IF IsSpace(s[Len(s)]) THEN RStrip(SubSeq(s, 1, Len(s) - 1)) ELSE s

\* str.strip()
Strip(s) == RStrip(LStrip(s))

DigitChar(d) == <<"0", "1", "2", "3", "4", "5", "6", "7", "8", "9">>[d + 1]

RECURSIVE Digits(_)
Digits(n) ==
  IF n < 10 THEN <<DigitChar(n)>>
  ELSE Digits(n \div 10) \o <<DigitChar(n % 10)>>

\* str(value)
PyStr(v) ==
  CASE v.t = "str" -> v.s
    [] v.t = "int" -> IF v.n < 0 THEN <<"-">> \o Digits(0 - v.n) ELSE Digits(v.n)
    [] v.t = "bool" -> IF v.b THEN <<"T", "r", "u", "e">>
                       ELSE <<"F", "a", "l", "s", "e">>
    [] OTHER -> <<"N", "o", "n", "e">>

\* bool(value): the test of `if value`
Truthy(v) ==
  CASE v.t = "str" -> v.s # <<>>
    [] v.t = "int" -> v.n # 0
    [] v.t = "bool" -> v.b
    [] OTHER -> FALSE

\* ------------------------------------------------- find_header_row (df)
\* `value is not None and str(value).strip() != ""`
DfIsCounted(v) == v.t # "none" /\ Strip(PyStr(v)) # <<>>

\* the inner loop: count until the first cell that is not counted
RECURSIVE DfConsecutiveCount(_)
DfConsecutiveCount(row) ==
  IF row = <<>> THEN 0
  ELSE IF DfIsCounted(Head(row)) THEN 1 + DfConsecutiveCount(Tail(row))
  ELSE 0

\* [str(value).strip().lower() for value in row if value is not None]
DfRowValues(row) ==
  {Lower(Strip(PyStr(row[c]))) : c \in {d \in 1..Len(row) : row[d].t # "none"}}

\* all(keyword.lower() in row_values for keyword in expected_keywords)
DfAllKeywordsPresent(row, kws) ==
  \A k \in 1..Len(kws) : Lower(kws[k]) \in DfRowValues(row)

\* pl.read_excel(...).head(max_rows): the rows the loop iterates over
DfHead(g, n) ==
  IF n >= Len(g) THEN g ELSE SubSeq(g, 1, IF n < 0 THEN 0 ELSE n)

\* ------------------------------------------------- find_header_row (xl)
\* `if value`
XlIsCounted(v) == Truthy(v)

RECURSIVE XlConsecutiveCount(_)
XlConsecutiveCount(row) ==
  IF row = <<>> THEN 0
  ELSE IF XlIsCounted(Head(row)) THEN 1 + XlConsecutiveCount(Tail(row))
  ELSE 0

\* [str(value).strip().lower() for value in row if value]
XlRowValues(row) ==
  {Lower(Strip(PyStr(row[c]))) : c \in {d \in 1..Len(row) : Truthy(row[d])}}

XlAllKeywordsPresent(row, kws) ==
  \A k \in 1..Len(kws) : Lower(kws[k]) \in XlRowValues(row)

\* ------------------------------------------- the loop body, both variants
\* `if expected_keywords`: None and [] are both falsy
KeywordsGiven(kw) == kw.some /\ kw.list # <<>>

\* mutation of Improve: a row that ties the running maximum replaces it
ImproveOnTie(st, idx, cc, allKw, kwGiven) ==
  IF cc >= st.max_consecutive
  THEN [max_consecutive |-> cc, header_row_index |-> idx,
        stop |-> kwGiven /\ allKw]
  ELSE [max_consecutive |-> st.max_consecutive,
        header_row_index |-> st.header_row_index, stop |-> FALSE]

\* if consecutive_count > max_consecutive: ... ; break when the keywords
\* are given and all present.  st = [max_consecutive, header_row_index];
\* the result adds stop (the break).
Improve(st, idx, cc, allKw, kwGiven) ==
  IF cc > st.max_consecutive
  THEN [max_consecutive |-> cc, header_row_index |-> idx,
        stop |-> kwGiven /\ allKw]
  ELSE [max_consecutive |-> st.max_consecutive,
        header_row_index |-> st.header_row_index, stop |-> FALSE]

\* one iteration on `row`, the row at 0-based index idx
DfIterate(st, idx, row, kw) ==
  Improve(st, idx, DfConsecutiveCount(row),
          KeywordsGiven(kw) /\ DfAllKeywordsPresent(row, kw.list),
          KeywordsGiven(kw))

XlIterate(st, idx, row, kw) ==
  Improve(st, idx, XlConsecutiveCount(row),
          KeywordsGiven(kw) /\ XlAllKeywordsPresent(row, kw.list),
          KeywordsGiven(kw))

\* ------------------------------------------------------ normalize_columns
\* the characters \w of the regular expression matches, among ASCII and
\* Latin-1: letters, digits, numeric characters and the underscore
WordChars ==
  {"0", "1", "2", "3", "4", "5", "6", "7", "8", "9", "A", "B", "C", "D", "E", "F",
   "G", "H", "I", "J", "K", "L", "M", "N", "O", "P", "Q", "R", "S", "T", "U", "V",
   "W", "X", "Y", "Z", "_", "a", "b", "c", "d", "e", "f", "g", "h", "i", "j", "k",
   "l", "m", "n", "o", "p", "q", "r", "s", "t", "u", "v", "w", "x", "y", "z", "ª",
   "²", "³", "µ", "¹", "º", "¼", "½", "¾", "À", "Á", "Â", "Ã", "Ä", "Å", "Æ", "Ç",
   "È", "É", "Ê", "Ë", "Ì", "Í", "Î", "Ï", "Ð", "Ñ", "Ò", "Ó", "Ô", "Õ", "Ö", "Ø",
   "Ù", "Ú", "Û", "Ü", "Ý", "Þ", "ß", "à", "á", "â", "ã", "ä", "å", "æ", "ç", "è",
   "é", "ê", "ë", "ì", "í", "î", "ï", "ð", "ñ", "ò", "ó", "ô", "õ", "ö", "ø", "ù",
   "ú", "û", "ü", "ý", "þ", "ÿ"}

IsWordChar(c) == c \in WordChars

KeepChar(c) == IsWordChar(c) \/ IsSpace(c)

\* mutation of StripPunctuation: the ends are trimmed before the
\* punctuation is removed
StripPunctuationTrimFirst(s) == SelectSeq(Strip(s), KeepChar)

\* rpatoolkit.utils.strip_punctuation with the default replacement "":
\* every character that is neither a word character nor whitespace is
\* removed, then the ends are trimmed
StripPunctuation(s) == Strip(SelectSeq(s, KeepChar))

\* a mapping value is a list of names or one name
ListValue(l) == [kind |-> "list", l |-> l, s |-> <<>>]
StrValue(a) == [kind |-> "str", l |-> <<>>, s |-> a]

\* `if isinstance(possible_names, str): possible_names = [possible_names]`
PossibleNames(value) == IF value.kind = "str" THEN <<value.s>> ELSE value.l

\* the reverse mapping under construction; amb: the "Ambiguous mapping"
\* ValueError has been raised
NoReverse == [amb |-> FALSE, rm |-> <<>>]

\* mutation of AddName: a second claim on a key overwrites the first
AddNameOverwrite(acc, final_name, name) ==
  IF acc.amb THEN acc
  ELSE LET key == Lower(name) IN
    [amb |-> FALSE,
     rm |-> [k \in DOMAIN acc.rm \cup {key} |->
               IF k = key THEN final_name ELSE acc.rm[k]]]

\* mutation of AddName: a second claim on a key is dropped silently
AddNameFirstWins(acc, final_name, name) ==
  IF acc.amb THEN acc
  ELSE LET key == Lower(name) IN
    IF key \in DOMAIN acc.rm THEN acc
    ELSE [amb |-> FALSE,
          rm |-> [k \in DOMAIN acc.rm \cup {key} |->
                    IF k = key THEN final_name ELSE acc.rm[k]]]

\* the body of `for name in possible_names`
AddName(acc, final_name, name) ==
  IF acc.amb THEN acc
  ELSE LET key == Lower(name) IN
    IF key \in DOMAIN acc.rm
    THEN [amb |-> TRUE, rm |-> acc.rm]
    ELSE [amb |-> FALSE,
          rm |-> [k \in DOMAIN acc.rm \cup {key} |->
                    IF k = key THEN final_name ELSE acc.rm[k]]]

RECURSIVE AddNames(_, _, _)
AddNames(acc, final_name, names) ==
  IF names = <<>> THEN acc
  ELSE AddNames(AddName(acc, final_name, Head(names)), final_name, Tail(names))

\* `for final_name, possible_names in mapping.items()`
RECURSIVE BuildReverseMapping(_, _)
BuildReverseMapping(acc, m) ==
  IF m = <<>> THEN acc
  ELSE BuildReverseMapping(
         AddNames(acc, Head(m).final_name, PossibleNames(Head(m).names)),
         Tail(m))

\* mutation of NormalizeCols: the punctuation pass is skipped
NormalizeColsNoPunctuation(cols, rp, lc) ==
  IF lc THEN [k \in DOMAIN cols |-> Lower(Strip(cols[k]))] ELSE cols

\* the two optional passes over the column names
NormalizeCols(cols, rp, lc) ==
  LET afterPunct == IF rp THEN [k \in DOMAIN cols |-> StripPunctuation(Strip(cols[k]))]
                    ELSE cols
  IN IF lc THEN [k \in DOMAIN afterPunct |-> Lower(Strip(afterPunct[k]))]
     ELSE afterPunct

\* `norm_col = norm_col.strip().lower()`
LookupKey(norm_col) == Lower(Strip(norm_col))

\* mutation of MatchStep: a final name already used is taken again
MatchStepNoUsedCheck(st, rm, orig_col, norm_col) ==
  LET key == LookupKey(norm_col) IN
  IF key \notin DOMAIN rm THEN st
  ELSE LET final_name == rm[key] IN
    [dup |-> FALSE,
     used_final |-> st.used_final \cup {final_name},
     rename_dict |->
       IF orig_col # final_name
       THEN [c \in DOMAIN st.rename_dict \cup {orig_col} |->
               IF c = orig_col THEN final_name ELSE st.rename_dict[c]]
       ELSE st.rename_dict]

\* the body of `for orig_col, norm_col in zip(...)`; dup: the "Multiple
\* columns map to the same final name" ValueError has been raised
MatchStep(st, rm, orig_col, norm_col) ==
  LET key == LookupKey(norm_col) IN
  IF key \notin DOMAIN rm THEN st
  ELSE LET final_name == rm[key] IN
    IF final_name \in st.used_final
    THEN [dup |-> TRUE, used_final |-> st.used_final,
          rename_dict |-> st.rename_dict]
    ELSE [dup |-> FALSE,
          used_final |-> st.used_final \cup {final_name},
          rename_dict |->
            IF orig_col # final_name
            THEN [c \in DOMAIN st.rename_dict \cup {orig_col} |->
                    IF c = orig_col THEN final_name ELSE st.rename_dict[c]]
            ELSE st.rename_dict]

\* `for orig_col, norm_col in zip(original_cols, normalized_cols)`, from
\* column k on; the loop is left when the ValueError is raised
RECURSIVE MatchFrom(_, _, _, _, _)
MatchFrom(st, rm, cols, norms, k) ==
  IF st.dup \/ k > Len(cols) THEN st
  ELSE MatchFrom(MatchStep(st, rm, cols[k], norms[k]), rm, cols, norms, k + 1)

\* the call as a function of its arguments: the error raised, or the
\* rename plan handed to df.rename
NormalizeColumns(cols, m, rp, lc) ==
  LET built == BuildReverseMapping(NoReverse, m) IN
  IF built.amb THEN [kind |-> "Ambiguous mapping", plan |-> <<>>]
  ELSE LET st == MatchFrom([dup |-> FALSE, used_final |-> {}, rename_dict |-> <<>>],
                           built.rm, cols, NormalizeCols(cols, rp, lc), 1)
       IN IF st.dup
          THEN [kind |-> "Multiple columns map to the same final name",
                plan |-> <<>>]
          ELSE [kind |-> "", plan |-> st.rename_dict]

\* two entries of the list are the same name
HasDuplicates(cols) ==
  \E p, q \in DOMAIN cols : p # q /\ cols[p] = cols[q]

\* the column names after `df.rename(rename_dict)`
Renamed(cols, rd) ==
  [k \in DOMAIN cols |-> IF cols[k] \in DOMAIN rd THEN rd[cols[k]] ELSE cols[k]]

\* ---------------------------------------------------- get_missing_columns
\* available_columns = [col.lower() for col in df.columns]
AvailableColumns(cols) == {Lower(cols[k]) : k \in DOMAIN cols}

\* mutation of MissingFrom: the names are compared as written
MissingFromCaseSensitive(required, cols) ==
  SelectSeq(required, LAMBDA c : c \notin {cols[k] : k \in DOMAIN cols})

\* [col for col in required_columns if col.lower() not in available_columns]
MissingFrom(required, cols) ==
  SelectSeq(required, LAMBDA c : Lower(c) \notin AvailableColumns(cols))

GetMissingColumns(cols, required) == MissingFrom(required, cols)

\* the keys of the mapping, in order
RequiredColumns(m) == [k \in DOMAIN m |-> m[k].final_name]

NoInt == [some |-> FALSE, v |-> 0]
OptInt(n) == [some |-> TRUE, v |-> n]
NoStr == [some |-> FALSE, v |-> ""]
OptStr(t) == [some |-> TRUE, v |-> t]

\* `if sheet_id`, `if sheet_name`: None, 0 and "" are falsy
TruthyInt(o) == o.some /\ o.v # 0
TruthyStr(o) == o.some /\ o.v # ""

\* the request handed to the decoder; NoSheet: nothing was decoded
NoSheet == [engine |-> "", sheet_id |-> NoInt, sheet_name |-> NoStr]
Request(e, sid, sname) == [engine |-> e, sheet_id |-> sid, sheet_name |-> sname]

\* the two checks `sheet_id ... and sheet_name ...` that raise ValueError
DfBothSelectors(sid, sname) == sid.some /\ sname.some
XlBothSelectors(sid, sname) == TruthyInt(sid) /\ TruthyStr(sname)

\* xl: the worksheet looked up after the check
XlWorksheet(sid, sname) ==
  IF TruthyInt(sid) THEN Request("calamine", OptInt(0), NoStr)
  ELSE IF TruthyStr(sname) THEN Request("calamine", NoInt, sname)
  ELSE Request("calamine", OptInt(0), NoStr)

\* --------------------------------------------------------------- inputs
\* the cells of a scanned sheet: absent, whitespace-only text, the number
\* 0, and a label that is the keyword up to case and surrounding blanks
ScanCells == {NoneCell, StrCell(<<" ">>), IntCell(0), StrCell(<<"N", " ">>)}
\* the decoders give rectangular sheets: h rows of w cells
Shapes == {hw \in (0..MaxCells) \X (1..MaxCells) :
             hw[1] * hw[2] <= MaxCells /\ (hw[1] = 0 => hw[2] = 1)}
Grids == UNION {[1..hw[1] -> [1..hw[2] -> ScanCells]] : hw \in Shapes}

NoKeywords == [some |-> FALSE, list |-> <<>>]
KeywordArgs == {NoKeywords,
                [some |-> TRUE, list |-> <<>>],
                [some |-> TRUE, list |-> << <<"n">> >>],
                [some |-> TRUE, list |-> << <<"0">> >>]}

\* the selectors of a call: absent, or one of a few values; the name ""
\* and the index 0 are the falsy ones
SheetIds == {NoInt} \cup {OptInt(n) : n \in 0..MaxSheetId}
SheetNames == {NoStr, OptStr(""), OptStr("A"), OptStr("B")}
Functions == {"df.find_header_row", "xl.find_header_row", "df.read_excel"}

\* final names, the names a mapping lists, the names a frame carries
FinalNames == {<<"x">>, <<"X">>, <<"a">>}
AliasNames == {<<"a">>, <<"A">>, <<"b", "-">>}
ObservedNames == {<<"a">>, <<" ", "A", "-">>, <<"b", "-">>, <<"x">>, <<"X">>}

MappingValues ==
  {ListValue(l) : l \in UNION {[1..k -> AliasNames] : k \in 0..MaxAliases}}
    \cup {StrValue(a) : a \in AliasNames}
MappingEntries == {[final_name |-> f, names |-> v] : f \in FinalNames, v \in MappingValues}
RECURSIVE TotalNames(_)
TotalNames(m) ==
  IF m = <<>> THEN 0 ELSE Len(PossibleNames(Head(m).names)) + TotalNames(Tail(m))
\* a dict: its keys are distinct; insertion order is kept
Mappings ==
  {m \in UNION {[1..k -> MappingEntries] : k \in 0..2} :
     /\ \A p, q \in DOMAIN m : p # q => m[p].final_name # m[q].final_name
     /\ TotalNames(m) <= MaxAliases}
\* a frame's column names are distinct
ColumnLists ==
  {cs \in UNION {[1..k -> ObservedNames] : k \in 0..MaxColumns} :
     \A p, q \in DOMAIN cs : p # q => cs[p] # cs[q]}

\* the characters of a text: a letter in both cases, the underscore,
\* a blank, two punctuation marks
TextChars == {"a", "A", "_", " ", "-", "."}
Texts == UNION {[1..n -> TextChars] : n \in 0..MaxTextLen}

\* a sheet with hidden rows: rows of two cells, each absent or a label,
\* and for each row whether it is hidden
SheetRows == [1..2 -> {NoneCell, StrCell(<<"N", " ">>)}]
Sheets == UNION {[1..h -> SheetRows] : h \in 0..MaxSheetRows}

\* ----------------------------------------------------------- the state
\* pc: where the running call is.  impl: which find_header_row runs.
VARIABLES pc, impl,
          \* find_header_row: the decoded sheet, the arguments, the locals
          grid, max_rows, expected_keywords,
          i, max_consecutive, header_row_index,
          \* the inner loop over the cells of one row
          cur_row, pos, consecutive_count,
          \* sheet selection: the called function, its selectors, the
          \* request handed to the decoder, the error raised
          fn, sheet_id, sheet_name, read_all_sheets, ws, err,
          \* normalize_columns: the frame's columns, the arguments, the locals
          columns, mapping, remove_punctuation, lowercase_columns,
          reverse_mapping, normalized_cols, ci, rename_dict, used_final,
          result_columns,
          \* get_missing_columns on the result: the list returned
          missing_cols,
          \* whether df is a LazyFrame, as read by isinstance
          lazy,
          \* strip_punctuation applied once and twice to a text
          text, once, twice,
          \* read_excel_sheet(visible_rows_only=True): the sheet, the hidden
          \* flag of each row, the header_row and raise_if_empty arguments,
          \* the frame returned
          sheet, hidden, header_row, raise_if_empty, headers, data

scanVars == <<grid, max_rows, expected_keywords,
              i, max_consecutive, header_row_index>>
countVars == <<cur_row, pos, consecutive_count>>
selectVars == <<fn, sheet_id, sheet_name, read_all_sheets, ws>>
normVars == <<columns, mapping, remove_punctuation, lowercase_columns,
              reverse_mapping, normalized_cols, ci, rename_dict, used_final,
              result_columns, missing_cols, lazy>>

stripVars == <<text, once, twice>>
visibleVars == <<sheet, hidden, header_row, raise_if_empty, headers, data>>

vars == <<pc, impl, err, scanVars, countVars, selectVars, normVars,
          stripVars, visibleVars>>

ScanIdle ==
  /\ grid = <<>> /\ max_rows = 0 /\ expected_keywords = NoKeywords
  /\ i = 0 /\ max_consecutive = 0 /\ header_row_index = 0

CountIdle == cur_row = <<>> /\ pos = 0 /\ consecutive_count = 0

SelectIdle ==
  /\ fn = "" /\ sheet_id = NoInt /\ sheet_name = NoStr
  /\ read_all_sheets = FALSE /\ ws = NoSheet

StripIdle == text = <<>> /\ once = <<>> /\ twice = <<>>

VisibleIdle ==
  /\ sheet = <<>> /\ hidden = <<>> /\ header_row = NoInt
  /\ raise_if_empty = FALSE
  /\ headers = <<>> /\ data = <<>>

NormIdle ==
  /\ columns = <<>> /\ mapping = <<>>
  /\ remove_punctuation = TRUE /\ lowercase_columns = TRUE
  /\ reverse_mapping = <<>> /\ normalized_cols = <<>> /\ ci = 0
  /\ rename_dict = <<>> /\ used_final = {} /\ result_columns = <<>>
  /\ missing_cols = <<>> /\ lazy = FALSE

\* ------------------------------------------------------------ the scan
args == <<impl, grid, max_rows, expected_keywords>>

Init ==
  /\ impl \in {"df", "xl"}
  /\ grid \in Grids
  /\ max_rows \in 0..MaxScan
  /\ expected_keywords \in KeywordArgs
  /\ i = 0
  /\ max_consecutive = 0
  /\ header_row_index = 0
  /\ pc = "scan"
  /\ err = ""
  /\ CountIdle /\ SelectIdle /\ NormIdle
  /\ StripIdle /\ VisibleIdle

LoopState == [max_consecutive |-> max_consecutive,
              header_row_index |-> header_row_index]

\* df: for i, row in enumerate(df.rows()) -- one iteration
DfScanRow ==
  /\ pc = "scan" /\ impl = "df"
  /\ i < Len(DfHead(grid, max_rows))
  /\ LET r == DfIterate(LoopState, i, DfHead(grid, max_rows)[i + 1],
                        expected_keywords)
     IN /\ max_consecutive' = r.max_consecutive
        /\ header_row_index' = r.header_row_index
        /\ IF r.stop THEN pc' = "done" /\ i' = i
           ELSE pc' = "scan" /\ i' = i + 1
  /\ UNCHANGED <<args, err, countVars, selectVars, normVars, stripVars, visibleVars>>

\* df: the rows are exhausted; return header_row_index
DfLoopEnd ==
  /\ pc = "scan" /\ impl = "df"
  /\ i >= Len(DfHead(grid, max_rows))
  /\ pc' = "done"
  /\ UNCHANGED <<impl, err, scanVars, countVars, selectVars, normVars, stripVars, visibleVars>>

\* xl: for i, row in enumerate(ws.iter_rows()) -- one iteration
XlScanRow ==
  /\ pc = "scan" /\ impl = "xl"
  /\ i < Len(grid)
  /\ ~(i > max_rows)
  /\ LET r == XlIterate(LoopState, i, grid[i + 1], expected_keywords)
     IN /\ max_consecutive' = r.max_consecutive
        /\ header_row_index' = r.header_row_index
        /\ IF r.stop THEN pc' = "done" /\ i' = i
           ELSE pc' = "scan" /\ i' = i + 1
  /\ UNCHANGED <<args, err, countVars, selectVars, normVars, stripVars, visibleVars>>

\* xl: `if i > max_rows: break`
XlMaxRowsBreak ==
  /\ pc = "scan" /\ impl = "xl"
  /\ i < Len(grid)
  /\ i > max_rows
  /\ pc' = "done"
  /\ UNCHANGED <<impl, err, scanVars, countVars, selectVars, normVars, stripVars, visibleVars>>

\* xl: the rows are exhausted; return header_row
XlLoopEnd ==
  /\ pc = "scan" /\ impl = "xl"
  /\ i >= Len(grid)
  /\ pc' = "done"
  /\ UNCHANGED <<impl, err, scanVars, countVars, selectVars, normVars, stripVars, visibleVars>>

Next == DfScanRow \/ DfLoopEnd \/ XlScanRow \/ XlMaxRowsBreak \/ XlLoopEnd

Spec == Init /\ [][Next]_vars

\* ------------------------------------- the inner loop over one row's cells
\* the cells a decoded row can hold
AllCells == {NoneCell, StrCell(<<>>), StrCell(<<" ">>), StrCell(<<" ", "x">>),
             IntCell(0), IntCell(7), BoolCell(FALSE), BoolCell(TRUE)}
CountRows == UNION {[1..w -> AllCells] : w \in 0..MaxRowLen}

CountInit ==
  /\ impl \in {"df", "xl"}
  /\ cur_row \in CountRows
  /\ pos = 0
  /\ consecutive_count = 0
  /\ pc = "count"
  /\ err = ""
  /\ ScanIdle /\ SelectIdle /\ NormIdle
  /\ StripIdle /\ VisibleIdle

\* df: `if value is not None and str(value).strip() != "": count += 1`
DfCountCell ==
  /\ pc = "count" /\ impl = "df"
  /\ pos < Len(cur_row) /\ DfIsCounted(cur_row[pos + 1])
  /\ consecutive_count' = consecutive_count + 1
  /\ pos' = pos + 1
  /\ UNCHANGED <<pc, impl, err, cur_row, scanVars, selectVars, normVars, stripVars, visibleVars>>

\* df: `else: break`
DfCountBreak ==
  /\ pc = "count" /\ impl = "df"
  /\ pos < Len(cur_row) /\ ~DfIsCounted(cur_row[pos + 1])
  /\ pc' = "counted"
  /\ UNCHANGED <<impl, err, countVars, scanVars, selectVars, normVars, stripVars, visibleVars>>

\* df: the cells are exhausted
DfCountEnd ==
  /\ pc = "count" /\ impl = "df"
  /\ pos >= Len(cur_row)
  /\ pc' = "counted"
  /\ UNCHANGED <<impl, err, countVars, scanVars, selectVars, normVars, stripVars, visibleVars>>

\* xl: `if value: count += 1`
XlCountCell ==
  /\ pc = "count" /\ impl = "xl"
  /\ pos < Len(cur_row) /\ XlIsCounted(cur_row[pos + 1])
  /\ consecutive_count' = consecutive_count + 1
  /\ pos' = pos + 1
  /\ UNCHANGED <<pc, impl, err, cur_row, scanVars, selectVars, normVars, stripVars, visibleVars>>

\* xl: `else: break`
XlCountBreak ==
  /\ pc = "count" /\ impl = "xl"
  /\ pos < Len(cur_row) /\ ~XlIsCounted(cur_row[pos + 1])
  /\ pc' = "counted"
  /\ UNCHANGED <<impl, err, countVars, scanVars, selectVars, normVars, stripVars, visibleVars>>

\* xl: the cells are exhausted
XlCountEnd ==
  /\ pc = "count" /\ impl = "xl"
  /\ pos >= Len(cur_row)
  /\ pc' = "counted"
  /\ UNCHANGED <<impl, err, countVars, scanVars, selectVars, normVars, stripVars, visibleVars>>

CountNext ==
  \/ DfCountCell \/ DfCountBreak \/ DfCountEnd
  \/ XlCountCell \/ XlCountBreak \/ XlCountEnd

SpecCount == CountInit /\ [][CountNext]_vars

\* ------------------------------------------------------- sheet selection
SelectInit ==
  /\ fn \in Functions
  /\ sheet_id \in SheetIds
  /\ sheet_name \in SheetNames
  /\ read_all_sheets \in (IF fn = "df.read_excel" THEN BOOLEAN ELSE {FALSE})
  /\ ws = NoSheet
  /\ pc = "call"
  /\ err = ""
  /\ impl = "none"
  /\ ScanIdle /\ CountIdle /\ NormIdle
  /\ StripIdle /\ VisibleIdle

SelectFrame == UNCHANGED <<impl, fn, sheet_id, sheet_name, read_all_sheets,
                           scanVars, countVars, normVars, stripVars, visibleVars>>

\* df find_header_row: `if sheet_id is not None and sheet_name is not None`
DfRaiseBoth ==
  /\ pc = "call" /\ fn = "df.find_header_row"
  /\ DfBothSelectors(sheet_id, sheet_name)
  /\ pc' = "error"
  /\ err' = "sheet_id and sheet_name cannot be both specified."
  /\ ws' = ws
  /\ SelectFrame

\* df find_header_row: pl.read_excel(sheet_id=sheet_id, sheet_name=sheet_name)
DfOpen ==
  /\ pc = "call" /\ fn = "df.find_header_row"
  /\ ~DfBothSelectors(sheet_id, sheet_name)
  /\ pc' = "decoded"
  /\ ws' = Request("polars", sheet_id, sheet_name)
  /\ err' = err
  /\ SelectFrame

\* xl find_header_row: `if sheet_id and sheet_name`
XlRaiseBoth ==
  /\ pc = "call" /\ fn = "xl.find_header_row"
  /\ XlBothSelectors(sheet_id, sheet_name)
  /\ pc' = "error"
  /\ err' = "sheet_id and sheet_name cannot be both specified."
  /\ ws' = ws
  /\ SelectFrame

\* xl find_header_row: the workbook is opened and a worksheet looked up
XlOpen ==
  /\ pc = "call" /\ fn = "xl.find_header_row"
  /\ ~XlBothSelectors(sheet_id, sheet_name)
  /\ pc' = "decoded"
  /\ ws' = XlWorksheet(sheet_id, sheet_name)
  /\ err' = err
  /\ SelectFrame

\* read_excel: `if sheet_id is not None and sheet_name is not None`
ReadExcelRaiseBoth ==
  /\ pc = "call" /\ fn = "df.read_excel"
  /\ DfBothSelectors(sheet_id, sheet_name)
  /\ pc' = "error"
  /\ err' = "sheet_id and sheet_name cannot be both specified."
  /\ ws' = ws
  /\ SelectFrame

\* read_excel: `if sheet_id == 0`
ReadExcelRaiseZero ==
  /\ pc = "call" /\ fn = "df.read_excel"
  /\ ~DfBothSelectors(sheet_id, sheet_name)
  /\ sheet_id = OptInt(0)
  /\ pc' = "error"
  /\ err' = "sheet_id must start from 1."
  /\ ws' = ws
  /\ SelectFrame

\* read_excel: `if read_all_sheets`: pl.read_excel(sheet_id=0)
ReadExcelAll ==
  /\ pc = "call" /\ fn = "df.read_excel"
  /\ ~DfBothSelectors(sheet_id, sheet_name)
  /\ sheet_id # OptInt(0)
  /\ read_all_sheets
  /\ pc' = "decoded"
  /\ ws' = Request("polars", OptInt(0), NoStr)
  /\ err' = err
  /\ SelectFrame

\* read_excel: pl.read_excel(sheet_id=sheet_id, sheet_name=sheet_name)
ReadExcelOne ==
  /\ pc = "call" /\ fn = "df.read_excel"
  /\ ~DfBothSelectors(sheet_id, sheet_name)
  /\ sheet_id # OptInt(0)
  /\ ~read_all_sheets
  /\ pc' = "decoded"
  /\ ws' = Request("polars", sheet_id, sheet_name)
  /\ err' = err
  /\ SelectFrame

SelectNext ==
  \/ DfRaiseBoth \/ DfOpen
  \/ XlRaiseBoth \/ XlOpen
  \/ ReadExcelRaiseBoth \/ ReadExcelRaiseZero \/ ReadExcelAll \/ ReadExcelOne

SpecSelect == SelectInit /\ [][SelectNext]_vars

\* ------------------------------------------------ normalize_columns, run
NormInit ==
  /\ columns \in ColumnLists
  /\ mapping \in Mappings
  /\ remove_punctuation \in BOOLEAN
  /\ lowercase_columns \in BOOLEAN
  /\ reverse_mapping = <<>> /\ normalized_cols = <<>> /\ ci = 0
  /\ rename_dict = <<>> /\ used_final = {} /\ result_columns = <<>>
  /\ missing_cols = <<>> /\ lazy = FALSE
  /\ pc = "build"
  /\ err = ""
  /\ impl = "none"
  /\ ScanIdle /\ CountIdle /\ SelectIdle
  /\ StripIdle /\ VisibleIdle

normArgs == <<columns, mapping, remove_punctuation, lowercase_columns>>

NormFrameButLazy == UNCHANGED <<impl, normArgs, missing_cols, scanVars, countVars,
                                selectVars, stripVars, visibleVars>>

NormFrame == NormFrameButLazy /\ lazy' = lazy

\* the reverse mapping is built; a key claimed twice raises
BuildAmbiguous ==
  /\ pc = "build"
  /\ BuildReverseMapping(NoReverse, mapping).amb
  /\ pc' = "error"
  /\ err' = "Ambiguous mapping"
  /\ UNCHANGED <<reverse_mapping, normalized_cols, ci, rename_dict,
                 used_final, result_columns>>
  /\ NormFrame

\* the reverse mapping is built; the frame is a LazyFrame or a DataFrame
\* (isinstance); the column names are normalized
BuildAndNormalize ==
  /\ pc = "build"
  /\ ~BuildReverseMapping(NoReverse, mapping).amb
  /\ reverse_mapping' = BuildReverseMapping(NoReverse, mapping).rm
  /\ normalized_cols' = NormalizeCols(columns, remove_punctuation, lowercase_columns)
  /\ ci' = 1
  /\ pc' = "match"
  /\ lazy' \in BOOLEAN
  /\ UNCHANGED <<err, rename_dict, used_final, result_columns>>
  /\ NormFrameButLazy

MatchState == [dup |-> FALSE, used_final |-> used_final, rename_dict |-> rename_dict]

\* one iteration of the loop over the columns
MatchColumn ==
  /\ pc = "match" /\ ci <= Len(columns)
  /\ LET st == MatchStep(MatchState, reverse_mapping, columns[ci], normalized_cols[ci])
     IN /\ ~st.dup
        /\ used_final' = st.used_final
        /\ rename_dict' = st.rename_dict
  /\ ci' = ci + 1
  /\ UNCHANGED <<pc, err, reverse_mapping, normalized_cols, result_columns>>
  /\ NormFrame

\* an iteration that finds its final name already used raises
MatchDuplicate ==
  /\ pc = "match" /\ ci <= Len(columns)
  /\ MatchStep(MatchState, reverse_mapping, columns[ci], normalized_cols[ci]).dup
  /\ pc' = "error"
  /\ err' = "Multiple columns map to the same final name"
  /\ UNCHANGED <<reverse_mapping, normalized_cols, ci, rename_dict,
                 used_final, result_columns>>
  /\ NormFrame

\* `if rename_dict: df = df.rename(rename_dict)`; `return df`.  A
\* LazyFrame records the rename; a DataFrame applies it, which polars
\* refuses when two columns would share a name.
RenameAndReturn ==
  /\ pc = "match" /\ ci > Len(columns)
  /\ lazy \/ ~HasDuplicates(Renamed(columns, rename_dict))
  /\ result_columns' = IF rename_dict # <<>> THEN Renamed(columns, rename_dict)
                       ELSE columns
  /\ pc' = "done"
  /\ UNCHANGED <<err, reverse_mapping, normalized_cols, ci, rename_dict, used_final>>
  /\ NormFrame

\* df.rename on a DataFrame, two columns would share a name:
\* polars.exceptions.DuplicateError
RenameRaises ==
  /\ pc = "match" /\ ci > Len(columns)
  /\ ~lazy /\ HasDuplicates(Renamed(columns, rename_dict))
  /\ pc' = "error"
  /\ err' = "polars: duplicate column name"
  /\ UNCHANGED <<reverse_mapping, normalized_cols, ci, rename_dict,
                 used_final, result_columns>>
  /\ NormFrame

\* the caller asks which final names of the mapping the result lacks:
\* get_missing_columns(result, list(mapping))
GetMissing ==
  /\ pc = "done"
  /\ ~HasDuplicates(result_columns)
  /\ missing_cols' = GetMissingColumns(result_columns, RequiredColumns(mapping))
  /\ pc' = "checked"
  /\ UNCHANGED <<impl, err, normArgs, reverse_mapping, normalized_cols, ci,
                 rename_dict, used_final, result_columns, lazy,
                 scanVars, countVars, selectVars, stripVars, visibleVars>>

\* df.collect_schema() on a LazyFrame whose recorded rename makes two
\* columns share a name: polars.exceptions.DuplicateError
GetMissingRaises ==
  /\ pc = "done"
  /\ HasDuplicates(result_columns)
  /\ pc' = "error"
  /\ err' = "polars: duplicate column name"
  /\ UNCHANGED <<impl, normArgs, reverse_mapping, normalized_cols, ci,
                 rename_dict, used_final, result_columns, missing_cols, lazy,
                 scanVars, countVars, selectVars, stripVars, visibleVars>>

NormNext ==
  \/ BuildAmbiguous \/ BuildAndNormalize
  \/ MatchColumn \/ MatchDuplicate
  \/ RenameAndReturn \/ RenameRaises
  \/ GetMissing \/ GetMissingRaises

SpecNorm == NormInit /\ [][NormNext]_vars

\* ------------------------------------------- strip_punctuation, applied
StripInit ==
  /\ text \in Texts
  /\ once = <<>> /\ twice = <<>>
  /\ pc = "text"
  /\ err = ""
  /\ impl = "none"
  /\ ScanIdle /\ CountIdle /\ SelectIdle /\ NormIdle /\ VisibleIdle

StripFrame == UNCHANGED <<impl, err, text, scanVars, countVars, selectVars,
                          normVars, visibleVars>>

\* strip_punctuation(text)
StripOnce ==
  /\ pc = "text"
  /\ once' = StripPunctuation(text)
  /\ pc' = "once"
  /\ twice' = twice
  /\ StripFrame

\* strip_punctuation(strip_punctuation(text))
StripTwice ==
  /\ pc = "once"
  /\ twice' = StripPunctuation(once)
  /\ pc' = "twice"
  /\ once' = once
  /\ StripFrame

StripNext == StripOnce \/ StripTwice

SpecStrip == StripInit /\ [][StripNext]_vars

\* ------------------------------------------- the whole call, as a function
RECURSIVE DfScanFrom(_, _, _, _)
DfScanFrom(st, idx, rows, kw) ==
  IF idx >= Len(rows) THEN st.header_row_index
  ELSE LET r == DfIterate(st, idx, rows[idx + 1], kw)
       IN IF r.stop THEN r.header_row_index
          ELSE DfScanFrom([max_consecutive |-> r.max_consecutive,
                           header_row_index |-> r.header_row_index],
                          idx + 1, rows, kw)

\* df find_header_row on the decoded sheet g
DfFindHeaderRow(g, n, kw) ==
  DfScanFrom([max_consecutive |-> 0, header_row_index |-> 0], 0,
             DfHead(g, n), kw)

RECURSIVE XlScanFrom(_, _, _, _, _)
XlScanFrom(st, idx, rows, n, kw) ==
  IF idx >= Len(rows) \/ idx > n THEN st.header_row_index
  ELSE LET r == XlIterate(st, idx, rows[idx + 1], kw)
       IN IF r.stop THEN r.header_row_index
          ELSE XlScanFrom([max_consecutive |-> r.max_consecutive,
                           header_row_index |-> r.header_row_index],
                          idx + 1, rows, n, kw)

\* xl find_header_row on the rows g of the selected sheet
XlFindHeaderRow(g, n, kw) ==
  XlScanFrom([max_consecutive |-> 0, header_row_index |-> 0], 0, g, n, kw)

\* ------------------------- read_excel_sheet(visible_rows_only=True), run
\* `cell.value if cell.value != "" else None`
CellValue(v) == IF v.t = "str" /\ v.s = <<>> THEN NoneCell ELSE v

\* the loop over ws.iter_rows(): the values of the rows not hidden
RECURSIVE VisibleRowsFrom(_, _, _)
VisibleRowsFrom(sh, hid, k) ==
  IF k > Len(sh) THEN <<>>
  ELSE (IF hid[k] THEN <<>>
        ELSE << [c \in DOMAIN sh[k] |-> CellValue(sh[k][c])] >>)
       \o VisibleRowsFrom(sh, hid, k + 1)

VisibleRows(sh, hid) == VisibleRowsFrom(sh, hid, 1)

\* `idx = header_row if header_row else 0`
HeaderIdx(hr) == IF TruthyInt(hr) THEN hr.v ELSE 0

VisibleInit ==
  /\ sheet \in Sheets
  /\ hidden \in [DOMAIN sheet -> BOOLEAN]
  /\ header_row = NoInt
  /\ raise_if_empty \in BOOLEAN
  /\ headers = <<>> /\ data = <<>>
  /\ pc = "sheet"
  /\ err = ""
  /\ impl = "none"
  /\ ScanIdle /\ CountIdle /\ SelectIdle /\ NormIdle /\ StripIdle

VisibleFrame == UNCHANGED <<impl, sheet, hidden, raise_if_empty, scanVars, countVars,
                            selectVars, normVars, stripVars>>

\* the caller locates the header: header_row = find_header_row(source)
LocateHeader ==
  /\ pc = "sheet"
  /\ header_row' = OptInt(XlFindHeaderRow(sheet, DefaultMaxRows, NoKeywords))
  /\ pc' = "located"
  /\ UNCHANGED <<err, headers, data>>
  /\ VisibleFrame

\* the caller's `if raise_if_empty and df.height == 0: raise ValueError`
\* on the frame the helper returned
RaisesEmpty(rows) == raise_if_empty /\ rows = <<>>

\* `if not visible_rows: return pl.DataFrame()`, then the caller's test
\* of the empty frame
ReadVisibleEmpty ==
  /\ pc = "located"
  /\ VisibleRows(sheet, hidden) = <<>>
  /\ headers' = <<>> /\ data' = <<>>
  /\ IF RaisesEmpty(<<>>)
     THEN pc' = "error" /\ err' = "No rows found in the sheet"
     ELSE pc' = "frame" /\ err' = err
  /\ UNCHANGED header_row
  /\ VisibleFrame

\* `if idx >= len(visible_rows): raise ValueError`
ReadVisibleOutOfBounds ==
  /\ pc = "located"
  /\ VisibleRows(sheet, hidden) # <<>>
  /\ HeaderIdx(header_row) >= Len(VisibleRows(sheet, hidden))
  /\ pc' = "error"
  /\ err' = "header_row index out of bounds"
  /\ UNCHANGED <<header_row, headers, data>>
  /\ VisibleFrame

\* headers = visible_rows[idx]; data = visible_rows[idx + 1:], then the
\* caller's test of the empty frame
ReadVisibleFrame ==
  /\ pc = "located"
  /\ VisibleRows(sheet, hidden) # <<>>
  /\ HeaderIdx(header_row) < Len(VisibleRows(sheet, hidden))
  /\ LET visible_rows == VisibleRows(sheet, hidden)
         idx == HeaderIdx(header_row)
         rows == SubSeq(visible_rows, idx + 2, Len(visible_rows))
     IN IF RaisesEmpty(rows)
        THEN /\ pc' = "error" /\ err' = "No rows found in the sheet"
             /\ UNCHANGED <<headers, data>>
        ELSE /\ headers' = visible_rows[idx + 1]
             /\ data' = rows
             /\ pc' = "frame" /\ err' = err
  /\ UNCHANGED header_row
  /\ VisibleFrame

VisibleNext ==
  \/ LocateHeader
  \/ ReadVisibleEmpty \/ ReadVisibleOutOfBounds \/ ReadVisibleFrame

SpecVisible == VisibleInit /\ [][VisibleNext]_vars

\* =================================================================
\* Properties of the scan
\* =================================================================
SetMax(S) == CHOOSE m \in S : \A x \in S : x <= m
SetMin(S) == CHOOSE m \in S : \A x \in S : m <= x

\* a cell is non-blank: not absent, and its text is non-empty after trim
NonBlank(v) == v.t # "none" /\ Strip(PyStr(v)) # <<>>

\* the number of cells before the first blank one
LeadingNonBlank(row) ==
  CHOOSE n \in 0..Len(row) :
    /\ \A c \in 1..n : NonBlank(row[c])
    /\ n < Len(row) => ~NonBlank(row[n + 1])

\* 1-based indexes of the first max_rows rows
FirstMaxRows == 1..(IF max_rows < Len(grid) THEN max_rows ELSE Len(grid))

\* what the running variant computes for a row
AllKw(row) ==
  IF impl = "df" THEN DfAllKeywordsPresent(row, expected_keywords.list)
  ELSE XlAllKeywordsPresent(row, expected_keywords.list)

\* C1 as claimed: whatever the variant, max_rows and the keywords, a row
\* of the first max_rows rows that is all non-blank, while every other
\* such row has strictly fewer leading non-blank cells, is the row
\* returned.
C1_AnyKeywords ==
  pc = "done" =>
    \A k \in FirstMaxRows :
      ( /\ \A c \in 1..Len(grid[k]) : NonBlank(grid[k][c])
        /\ \A j \in FirstMaxRows \ {k} :
             LeadingNonBlank(grid[j]) < LeadingNonBlank(grid[k]) )
      => header_row_index = k - 1

\* the part of C1 that no documented behaviour qualifies: in a call
\* without keywords, a row of the first max_rows rows that is all
\* non-blank, while every other such row has strictly fewer leading
\* non-blank cells, is the row returned.
C1_WithoutKeywords ==
  (pc = "done" /\ ~KeywordsGiven(expected_keywords)) =>
    \A k \in FirstMaxRows :
      ( /\ \A c \in 1..Len(grid[k]) : NonBlank(grid[k][c])
        /\ \A j \in FirstMaxRows \ {k} :
             LeadingNonBlank(grid[j]) < LeadingNonBlank(grid[k]) )
      => header_row_index = k - 1

\* the same, of the polars variant alone
C1_WithoutKeywordsDf == impl = "df" => C1_WithoutKeywords

\* C2: without keywords the df variant holds, after every iteration, the
\* earliest of the inspected rows whose leading non-blank count is the
\* maximum over the inspected rows (0 when none is inspected), and on
\* return the inspected rows are the first max_rows rows.
C2_FirstMaximum ==
  (impl = "df" /\ ~KeywordsGiven(expected_keywords)) =>
    /\ pc = "done" => 1..i = FirstMaxRows
    /\ max_consecutive =
         SetMax({0} \cup {LeadingNonBlank(grid[k]) : k \in 1..i})
    /\ IF i = 0 THEN header_row_index = 0
       ELSE header_row_index + 1 =
              SetMin({k \in 1..i :
                        LeadingNonBlank(grid[k]) = max_consecutive})

C2_Witness ==
  /\ pc = "done" /\ impl = "df" /\ ~KeywordsGiven(expected_keywords)
  /\ Len(grid) >= 2 /\ max_rows >= 2
  /\ LeadingNonBlank(grid[1]) > 0
  /\ LeadingNonBlank(grid[2]) = LeadingNonBlank(grid[1])
  /\ header_row_index = 0

\* the row holds every keyword among the trimmed, lower-cased texts of
\* its cells
HoldsEveryKeyword(row) ==
  \A q \in 1..Len(expected_keywords.list) :
    \E c \in 1..Len(row) :
      /\ row[c].t # "none"
      /\ Lower(Strip(PyStr(row[c]))) = Lower(expected_keywords.list[q])

\* the first max_rows rows that hold every keyword and whose leading
\* non-blank count exceeds that of every row before them
KeywordImprovements ==
  {k \in FirstMaxRows :
     /\ HoldsEveryKeyword(grid[k])
     /\ \A j \in 1..(k - 1) : LeadingNonBlank(grid[j]) < LeadingNonBlank(grid[k])
     /\ LeadingNonBlank(grid[k]) > 0}

\* C3 as claimed, for both variants: with keywords, the scan stops at the
\* first row that holds every keyword and whose count exceeds the running
\* maximum of the rows before it; that row is returned and no later row
\* is inspected.
C3_StopsAtFirstKeywordImprovement ==
  (pc = "done" /\ KeywordsGiven(expected_keywords) /\ KeywordImprovements # {}) =>
    /\ header_row_index = SetMin(KeywordImprovements) - 1
    /\ i = header_row_index

\* C4 as claimed (df variant): with keywords, when some row of the first
\* max_rows rows holds every keyword, the row returned holds every
\* keyword; a wider row without them is not returned instead.
C4_KeywordRowPreferred ==
  (pc = "done" /\ impl = "df" /\ KeywordsGiven(expected_keywords)) =>
    LET kwRows == {k \in FirstMaxRows : AllKw(grid[k])}
    IN kwRows # {} => header_row_index + 1 \in kwRows

\* C5 as claimed: 0 for an empty grid and for a grid of blank cells only,
\* and an index of the grid otherwise.
C5_AlwaysARowIndex ==
  pc = "done" =>
    /\ Len(grid) = 0 => header_row_index = 0
    /\ (\A k \in 1..Len(grid) : \A c \in 1..Len(grid[k]) :
          ~NonBlank(grid[k][c])) => header_row_index = 0
    /\ Len(grid) > 0 => (0 <= header_row_index /\ header_row_index < Len(grid))

\* the result of the running variant on sheet g, same max_rows and keywords
ResultOn(g) ==
  IF impl = "df" THEN DfFindHeaderRow(g, max_rows, expected_keywords)
  ELSE XlFindHeaderRow(g, max_rows, expected_keywords)

\* C6 as claimed: for max_rows >= 1 the index returned is below max_rows,
\* and replacing a row at index >= max_rows by any other row gives the
\* same index.
C6_OnlyFirstMaxRows ==
  (pc = "done" /\ max_rows >= 1) =>
    /\ header_row_index < max_rows
    /\ \A k \in (1..Len(grid)) \ FirstMaxRows :
         \A r \in [1..Len(grid[k]) -> ScanCells] :
           ResultOn([grid EXCEPT ![k] = r]) = header_row_index

\* =================================================================
\* Properties of the inner loop
\* =================================================================
\* C7 as claimed, for both variants: the count of a row is the number of
\* its cells before the first one that is absent or blank after trimming.
C7_CountIsLeadingNonBlank ==
  pc = "counted" => consecutive_count = LeadingNonBlank(cur_row)

\* C8: whenever both sheet_id and sheet_name are given (not None), whatever
\* the value of sheet_id, 0 included, each of the two find_header_row
\* implementations and read_excel raises before any sheet is decoded.
C8_BothSelectorsRaise ==
  (pc \in {"error", "decoded"} /\ sheet_id.some /\ sheet_name.some)
    => (pc = "error" /\ ws = NoSheet)

\* the names an entry lists, and the entries of a mapping
NamesOf(e) == {PossibleNames(e.names)[k] : k \in DOMAIN PossibleNames(e.names)}
EntriesOf(m) == {m[k] : k \in DOMAIN m}

\* two different final names list names that are equal after case folding
SharedAlias(m) ==
  \E e1, e2 \in EntriesOf(m) :
    /\ e1.final_name # e2.final_name
    /\ \E a \in NamesOf(e1), b \in NamesOf(e2) : Lower(a) = Lower(b)

\* C9: when two different final names of the mapping list names that are
\* equal after case folding, normalize_columns ends with the "Ambiguous
\* mapping" error for every frame, and no rename is planned or applied.
C9_AmbiguousMappingRaises ==
  (pc \in {"match", "done", "error"} /\ SharedAlias(mapping))
    => /\ pc = "error"
       /\ err = "Ambiguous mapping"
       /\ rename_dict = <<>>
       /\ result_columns = <<>>

\* the error was raised for a frame of one column that matches no listed name
C9_Witness ==
  /\ pc = "error" /\ err = "Ambiguous mapping"
  /\ SharedAlias(mapping)
  /\ Len(columns) = 1
  /\ \A e \in EntriesOf(mapping) : \A a \in NamesOf(e) :
       Lower(a) # LookupKey(NormalizeCols(columns, remove_punctuation,
                                          lowercase_columns)[1])

\* the final names whose listed names the column normalizes to
ClaimedBy(c) ==
  {e.final_name : e \in
     {e \in EntriesOf(mapping) :
        \E a \in NamesOf(e) :
          Lower(a) = LookupKey(NormalizeCols(<<c>>, remove_punctuation,
                                             lowercase_columns)[1])}}

TwoColumnsOneTarget ==
  \E p, q \in DOMAIN columns :
    p # q /\ ClaimedBy(columns[p]) \cap ClaimedBy(columns[q]) # {}

\* C10 as claimed: when two columns of the frame normalize to names listed
\* under the same final name, normalize_columns ends with the "Multiple
\* columns map to the same final name" error and returns no frame; in a
\* successful call no final name is the target of two columns.
C10_DuplicateTargetRaises ==
  /\ (pc \in {"done", "error"} /\ TwoColumnsOneTarget)
       => /\ pc = "error"
          /\ err = "Multiple columns map to the same final name"
          /\ result_columns = <<>>
  /\ pc = "done" =>
       /\ \A c1, c2 \in DOMAIN rename_dict :
            c1 # c2 => rename_dict[c1] # rename_dict[c2]
       /\ \A k \in DOMAIN columns :
            result_columns[k] =
              IF columns[k] \in DOMAIN rename_dict THEN rename_dict[columns[k]]
              ELSE columns[k]

\* the mapping lists, at two places, names that are equal after case
\* folding: under two final names or under one
ListedTwice(m) ==
  \E p, q \in DOMAIN m :
    \E j \in DOMAIN PossibleNames(m[p].names),
       k \in DOMAIN PossibleNames(m[q].names) :
      /\ <<p, j>> # <<q, k>>
      /\ Lower(PossibleNames(m[p].names)[j]) = Lower(PossibleNames(m[q].names)[k])

\* C10: when two columns of the frame normalize to names listed under the
\* same final name, normalize_columns returns no frame: it ends with the
\* "Ambiguous mapping" error when the mapping lists a case-folded name
\* twice, and with the "Multiple columns map to the same final name"
\* error otherwise; in a successful call no final name is the target of
\* two columns and every column has at most one target.
C10_DuplicateTargetUnlessAmbiguous ==
  /\ (pc \in {"done", "error"} /\ TwoColumnsOneTarget)
       => /\ pc = "error"
          /\ err = IF ListedTwice(mapping) THEN "Ambiguous mapping"
                   ELSE "Multiple columns map to the same final name"
          /\ result_columns = <<>>
  /\ pc = "done" =>
       /\ \A c1, c2 \in DOMAIN rename_dict :
            c1 # c2 => rename_dict[c1] # rename_dict[c2]
       /\ \A k \in DOMAIN columns :
            result_columns[k] =
              IF columns[k] \in DOMAIN rename_dict THEN rename_dict[columns[k]]
              ELSE columns[k]

\* the second of two columns claimed the final name the first had taken
C10_Witness ==
  /\ pc = "error" /\ err = "Multiple columns map to the same final name"
  /\ Len(columns) = 2 /\ ci = 2
  /\ TwoColumnsOneTarget /\ ~ListedTwice(mapping)

\* two columns normalize to names of one final name, and the mapping was
\* refused before the columns were read
C10_WitnessAmbiguous ==
  /\ pc = "error" /\ err = "Ambiguous mapping"
  /\ TwoColumnsOneTarget /\ ListedTwice(mapping) /\ ~SharedAlias(mapping)

\* a name after trimming, punctuation stripping and lower-casing
DefaultNormal(name) == Lower(StripPunctuation(Strip(name)))

\* the final names with a listed name whose lower-cased form is key
FinalsListing(key) ==
  {e.final_name : e \in {e \in EntriesOf(mapping) :
                           \E a \in NamesOf(e) : Lower(a) = key}}

\* C11: with the default options, in a successful call a column carries
\* final name c in the result, through a rename unless it is already
\* named c, exactly when its name after trimming, punctuation stripping
\* and lower-casing is the lower-cased form of a name listed under c; a
\* column that matches nothing keeps its name.
C11_RenamedExactlyWhenMatched ==
  (pc = "done" /\ remove_punctuation /\ lowercase_columns) =>
    \A k \in DOMAIN columns :
      LET cs == FinalsListing(DefaultNormal(columns[k]))
      IN IF cs = {}
         THEN /\ result_columns[k] = columns[k]
              /\ columns[k] \notin DOMAIN rename_dict
         ELSE /\ cs = {result_columns[k]}
              /\ columns[k] # result_columns[k] =>
                   /\ columns[k] \in DOMAIN rename_dict
                   /\ rename_dict[columns[k]] = result_columns[k]

\* a column that differs from the listed name in surrounding whitespace,
\* letter case and punctuation was renamed
C11_Witness ==
  /\ pc = "done" /\ remove_punctuation /\ lowercase_columns
  /\ \E k \in DOMAIN columns :
       /\ columns[k] = <<" ", "A", "-">>
       /\ result_columns[k] = <<"x">>
       /\ rename_dict[columns[k]] = <<"x">>

\* C12 as claimed: a column whose normalized name matches no listed name
\* keeps its name and position and raises nothing; the rename plan holds
\* an entry
\* only for a column of the frame whose name differs from its final name;
\* when no column matches (an empty mapping included) the names returned
\* are the original ones.
C12_PartialReconciliation ==
  /\ pc = "done" =>
       /\ Len(result_columns) = Len(columns)
       /\ \A k \in DOMAIN columns :
            ClaimedBy(columns[k]) = {} =>
              /\ result_columns[k] = columns[k]
              /\ columns[k] \notin DOMAIN rename_dict
       /\ \A c \in DOMAIN rename_dict :
            /\ \E k \in DOMAIN columns : columns[k] = c
            /\ rename_dict[c] # c
            /\ rename_dict[c] \in ClaimedBy(c)
       /\ (\A k \in DOMAIN columns : ClaimedBy(columns[k]) = {}) =>
            (result_columns = columns /\ rename_dict = <<>>)
  /\ (pc = "error" /\ columns # <<>> /\ mapping # <<>>) =>
       \/ err = "Ambiguous mapping"
       \/ /\ err = "Multiple columns map to the same final name"
          /\ TwoColumnsOneTarget

\* a column name as it is compared when case is not folded
UnfoldedNormal(name) ==
  IF remove_punctuation THEN StripPunctuation(Strip(name)) ELSE Strip(name)

\* C13 as claimed: with lowercase_columns false the comparison does not
\* fold case, so a column whose name equals no listed name as written,
\* letter case included, is not renamed.
C13_CaseFoldingOption ==
  (pc = "done" /\ ~lowercase_columns) =>
    \A k \in DOMAIN columns :
      (\A e \in EntriesOf(mapping) : \A a \in NamesOf(e) :
         a # UnfoldedNormal(columns[k]))
      => columns[k] \notin DOMAIN rename_dict

\* the names in a list
NamesIn(l) == {l[k] : k \in DOMAIN l}

\* list l holds, in the order of list r, some of the entries of r
KeepsOrderOf(l, r) ==
  \E f \in [DOMAIN l -> DOMAIN r] :
    /\ \A p \in DOMAIN l : l[p] = r[f[p]]
    /\ \A p, q \in DOMAIN l : p < q => f[p] < f[q]

\* C14 as claimed: a final name is reported missing exactly when no
\* column of the frame was mapped to it.
C14_MissingExactlyUnmapped ==
  pc = "checked" =>
    \A c \in NamesIn(RequiredColumns(mapping)) :
      c \in NamesIn(missing_cols)
        <=> ~ \E k \in DOMAIN columns : c \in ClaimedBy(columns[k])

\* the name a column is expected to carry after a successful call: the
\* final name that lists its normalized name, its own name when none does
ExpectedName(c) ==
  IF ClaimedBy(c) = {} THEN c ELSE CHOOSE f \in ClaimedBy(c) : TRUE

\* some column is expected to carry name c up to letter case
Carried(c) ==
  \E k \in DOMAIN columns : Lower(ExpectedName(columns[k])) = Lower(c)

\* C14 amended: a final name is in the list returned exactly when no
\* column of the result carries it up to letter case; so never when a
\* column was mapped to it, and, when no column was mapped to it, exactly
\* when neither an unmatched column nor a column renamed to another final
\* name carries it in some letter case; the list keeps the order of the
\* required names and holds no other name.
C14_MissingExactlyAbsent ==
  pc = "checked" =>
    /\ \A c \in NamesIn(RequiredColumns(mapping)) :
         /\ c \in NamesIn(missing_cols)
              <=> ~ \E k \in DOMAIN result_columns :
                      Lower(result_columns[k]) = Lower(c)
         /\ c \in NamesIn(missing_cols) <=> ~Carried(c)
         /\ (\E k \in DOMAIN columns : c \in ClaimedBy(columns[k]))
              => c \notin NamesIn(missing_cols)
         /\ (~ \E k \in DOMAIN columns : c \in ClaimedBy(columns[k]))
              => (c \in NamesIn(missing_cols)
                    <=> ~ \E k \in DOMAIN columns :
                            /\ c \notin ClaimedBy(columns[k])
                            /\ Lower(ExpectedName(columns[k])) = Lower(c))
    /\ NamesIn(missing_cols) \subseteq NamesIn(RequiredColumns(mapping))
    /\ KeepsOrderOf(missing_cols, RequiredColumns(mapping))

\* of two final names, one has no column mapped to it and is not in the
\* list because an unmatched column carries it in another letter case;
\* the other has no column either and is in the list
C14_Witness ==
  /\ pc = "checked" /\ Len(mapping) = 2
  /\ \A e \in EntriesOf(mapping) :
       ~ \E k \in DOMAIN columns : e.final_name \in ClaimedBy(columns[k])
  /\ \E k \in DOMAIN columns :
       /\ ClaimedBy(columns[k]) = {}
       /\ columns[k] # mapping[1].final_name
       /\ Lower(columns[k]) = Lower(mapping[1].final_name)
  /\ missing_cols = <<mapping[2].final_name>>

\* of two final names that differ in letter case only, one got a column
\* through a rename; neither is in the list
C14_WitnessRenamed ==
  /\ pc = "checked" /\ Len(mapping) = 2
  /\ mapping[1].final_name # mapping[2].final_name
  /\ Lower(mapping[1].final_name) = Lower(mapping[2].final_name)
  /\ \E k \in DOMAIN columns :
       /\ mapping[1].final_name \in ClaimedBy(columns[k])
       /\ columns[k] \in DOMAIN rename_dict
  /\ \A k \in DOMAIN columns : mapping[2].final_name \notin ClaimedBy(columns[k])
  /\ missing_cols = <<>>

\* of two final names one got a column and is not in the list, the other
\* got none and is in the list
C14_WitnessMapped ==
  /\ pc = "checked" /\ Len(mapping) = 2
  /\ \E k \in DOMAIN columns : mapping[1].final_name \in ClaimedBy(columns[k])
  /\ missing_cols = <<mapping[2].final_name>>

\* a list in every order of its entries
Reorderings(l) ==
  {[k \in DOMAIN l |-> l[p[k]]] : p \in Permutations(DOMAIN l)}

\* a mapping value with its names in every order
ValueReorderings(v) ==
  IF v.kind = "str" THEN {v} ELSE {ListValue(l) : l \in Reorderings(v.l)}

EntryReorderings(e) ==
  {[final_name |-> e.final_name, names |-> v] : v \in ValueReorderings(e.names)}

\* the mapping with its keys in every order and, under each key, its
\* names in every order
MappingReorderings(m) ==
  UNION {{m2 \in [DOMAIN m -> UNION {EntryReorderings(r[k]) : k \in DOMAIN r}] :
            \A k \in DOMAIN m : m2[k] \in EntryReorderings(r[k])} :
         r \in Reorderings(m)}

\* the outcome of the call that has ended
Outcome ==
  IF err \in {"Ambiguous mapping", "Multiple columns map to the same final name"}
  THEN [kind |-> err, plan |-> <<>>]
  ELSE [kind |-> "", plan |-> rename_dict]

\* C15: for the same columns and options, every reordering of the keys
\* of the mapping and of the names under each key gives the outcome the
\* call had: the same rename plan, or the same kind of error.
C15_MappingOrderIrrelevant ==
  pc \in {"done", "error"} =>
    \A m2 \in MappingReorderings(mapping) :
      NormalizeColumns(columns, m2, remove_punctuation, lowercase_columns) = Outcome

\* a call with two keys, one of them with two names, that renamed a column
C15_Witness ==
  /\ pc = "done" /\ Len(mapping) = 2 /\ rename_dict # <<>>
  /\ \E k \in DOMAIN mapping : Len(PossibleNames(mapping[k].names)) = 2
  /\ Cardinality(MappingReorderings(mapping)) = 4

\* =================================================================
\* Properties of strip_punctuation
\* =================================================================
\* the text without its punctuation marks
WithoutMarks(t) == SelectSeq(t, LAMBDA c : c \notin {"-", "."})

\* the text from its first to its last non-blank character
Trimmed(t) ==
  LET solid == {k \in DOMAIN t : t[k] # " "}
  IN IF solid = {} THEN <<>>
     ELSE SubSeq(t, SetMin(solid), SetMax(solid))

\* C16: with the default replacement, strip_punctuation applied twice
\* gives what it gives applied once, and one application removes every
\* character that is not a letter, digit, underscore or whitespace, keeps
\* the whitespace inside and trims both ends.
C16_StripPunctuationIdempotent ==
  /\ pc \in {"once", "twice"} => once = Trimmed(WithoutMarks(text))
  /\ pc = "twice" => twice = once

\* a text that loses a punctuation mark and a blank at an end and keeps a
\* blank inside
C16_Witness ==
  /\ pc = "twice" /\ twice = once
  /\ Len(once) < Len(WithoutMarks(text)) /\ Len(WithoutMarks(text)) < Len(text)
  /\ \E k \in DOMAIN once : once[k] = " "

\* =================================================================
\* Properties of the reader of visible rows
\* =================================================================
\* C17 as claimed: with header_row = find_header_row(sheet) and the
\* located row not hidden, read_excel_sheet(visible_rows_only=True)
\* takes sheet row header_row as the header and returns as data the
\* visible rows after it, whichever rows are hidden.  A call that
\* refuses an empty frame (raise_if_empty) is held to this when a visible
\* row follows the header.
C17_HeaderIsSheetRow ==
  (/\ pc \in {"frame", "error"} /\ sheet # <<>>
   /\ ~hidden[header_row.v + 1]
   /\ ~RaisesEmpty(VisibleRowsFrom(sheet, hidden, header_row.v + 2))) =>
    /\ pc = "frame"
    /\ headers = [c \in DOMAIN sheet[header_row.v + 1] |->
                    CellValue(sheet[header_row.v + 1][c])]
    /\ data = VisibleRowsFrom(sheet, hidden, header_row.v + 2)

\* =================================================================
\* Properties of the sheet selection
\* =================================================================
\* C18 as claimed: the calamine variant scans the sheet the caller
\* selected: the sheet at 0-based index sheet_id, or the sheet named
\* sheet_name (a non-empty name), and the first sheet only when neither
\* is given.
C18_SelectedSheetScanned ==
  (pc = "decoded" /\ fn = "xl.find_header_row"
     /\ ~(sheet_id.some /\ sheet_name.some)
     /\ sheet_name # OptStr("")) =>
    ws = IF sheet_id.some THEN Request("calamine", sheet_id, NoStr)
         ELSE IF sheet_name.some THEN Request("calamine", NoInt, sheet_name)
         ELSE Request("calamine", OptInt(0), NoStr)

\* =================================================================
\* The two variants compared
\* =================================================================
\* C19 as claimed: on the same sheet, with the same max_rows >= 1 and the
\* same keywords, the index a variant returns is the index the other
\* variant returns.
C19_VariantsAgree ==
  (pc = "done" /\ max_rows >= 1) =>
    header_row_index =
      IF impl = "df" THEN XlFindHeaderRow(grid, max_rows, expected_keywords)
      ELSE DfFindHeaderRow(grid, max_rows, expected_keywords)

\* =================================================================
\* The names a rename plan yields
\* =================================================================
\* C20 as claimed: for a frame of pairwise distinct column names, when
\* neither error is raised the rename plan yields pairwise distinct
\* names: no renamed column meets another renamed column or an unmatched
\* column that kept its name.
C20_PlanYieldsDistinctNames ==
  /\ pc = "done" =>
       \A p, q \in DOMAIN result_columns :
         p # q => result_columns[p] # result_columns[q]
  /\ (pc = "error" /\ columns # <<>>) =>
       err \in {"Ambiguous mapping",
                "Multiple columns map to the same final name"}

\* C21 as claimed: with the default options, in a successful call a column
\* whose name is character for character a name listed under final name c
\* carries the name c in the result, whatever the listed name contains,
\* punctuation included.
C21_ListedNameAlwaysRenamed ==
  (pc = "done" /\ remove_punctuation /\ lowercase_columns) =>
    \A k \in DOMAIN columns :
      \A e \in EntriesOf(mapping) :
        columns[k] \in NamesOf(e) => result_columns[k] = e.final_name

====
